---- MODULE Spec2Model ----
(***************************************************************************)
(* Model of the two core components of ai-tandem:                          *)
(*   - the takeoff scorer of app/api/weather-forecast/route.ts             *)
(*     (the current, range-table version, lines 324-767);                  *)
(*   - the review analyzer of the analyze-reviews route (unnamed/part_006).*)
(*                                                                         *)
(* Numbers of the scorer are carried in fixed point:                       *)
(*   temperature, dewpoint     tenths of a degree                          *)
(*   precipitation             hundredths of a millimetre                  *)
(*   wind speed, direction, cloud cover, cloud base   whole units          *)
(*   category scores           hundredths of a point                       *)
(*   unrounded category points 1/10000 of a point                          *)
(*   reported category points  tenths of a point                           *)
(***************************************************************************)
EXTENDS Integers, Sequences, FiniteSets, TLC

VARIABLES
  env,        \* module-level configuration of the scorer (process.env, read once)
  sample,     \* the weather sample of the day being scored
  forecast    \* the forecast entry computed for the sample, or NoForecast

VARIABLES
  apiKey,            \* process.env.AI_SECRET_KEY is set
  reviewsFile,       \* data/reviews.json: the review corpus, in order
  cacheFile,         \* data/ai-analysis-cache.json: the persisted analysis cache
  now,               \* the clock read by new Date()
  pc,                \* per POST invocation: the await point it is at
  analyzeAll,        \* per POST invocation: the request's flag
  reviews,           \* per POST invocation: the corpus as read
  cache,             \* per POST invocation: the in-memory cache
  reviewsToAnalyze,  \* per POST invocation: the work set, in corpus order
  analyzedCount,     \* per POST invocation: the counter of stored model results
  position,          \* per POST invocation: index of the for loop in reviewsToAnalyze
  response,          \* per POST invocation: the response returned, or NoResponse
  audit,             \* per POST invocation: what it has read and written so far
  got                \* the response of a GET request answered in the latest step, or NoResponse

scorerVars == <<env, sample, forecast>>

analyzerVars == <<apiKey, reviewsFile, cacheFile, now, pc, analyzeAll, reviews, cache,
                  reviewsToAnalyze, analyzedCount, position, response, audit>>

readerVars == <<got>>

vars == <<env, sample, forecast, apiKey, reviewsFile, cacheFile, now, pc, analyzeAll,
          reviews, cache, reviewsToAnalyze, analyzedCount, position, response, audit, got>>

-----------------------------------------------------------------------------
(* Arithmetic helpers                                                      *)

Max(a, b) == IF a >= b THEN a ELSE b

\* Math.round(n / d) for d > 0: nearest integer, ties towards +infinity.
Round(n, d) == (2 * n + d) \div (2 * d)

-----------------------------------------------------------------------------
(* Scorer configuration                                                    *)

BREITENBERG_ELEVATION == 1690

\* "0-45:100,45-90:100,90-135:90,135-180:60,180-225:30,225-270:20,270-315:10,315-360:100"
DEFAULT_WIND_DIRECTION_RANGES ==
  << [start |-> 0,   end |-> 45,  score |-> 100],
     [start |-> 45,  end |-> 90,  score |-> 100],
     [start |-> 90,  end |-> 135, score |-> 90],
     [start |-> 135, end |-> 180, score |-> 60],
     [start |-> 180, end |-> 225, score |-> 30],
     [start |-> 225, end |-> 270, score |-> 20],
     [start |-> 270, end |-> 315, score |-> 10],
     [start |-> 315, end |-> 360, score |-> 100] >>

\* A WIND_DIRECTION_RANGES override with a wrapping range and a gap (46..89).
WRAP_WIND_DIRECTION_RANGES ==
  << [start |-> 315, end |-> 45,  score |-> 100],
     [start |-> 90,  end |-> 180, score |-> 80],
     [start |-> 180, end |-> 315, score |-> 20] >>

DefaultEnv ==
  [ WIND_DIRECTION_RANGES              |-> DEFAULT_WIND_DIRECTION_RANGES,
    WIND_SPEED_0_5_SCORE               |-> 50,
    WIND_SPEED_5_8_SCORE               |-> 70,
    WIND_SPEED_8_24_SCORE              |-> 100,
    WIND_SPEED_24_29_SCORE             |-> 60,
    WIND_SPEED_29_35_SCORE             |-> 30,
    WIND_SPEED_35_PLUS_SCORE           |-> 10,
    WEIGHT_WIND_DIRECTION              |-> 40,
    WEIGHT_WIND_SPEED                  |-> 30,
    WEIGHT_PRECIPITATION               |-> 20,
    WEIGHT_CLOUD_COVER                 |-> 10,
    PRECIPITATION_PENALTY_PER_MM       |-> 20,
    MIN_CLOUD_BASE_MARGIN              |-> 200,
    MIN_WIND_SPEED_FOR_DIRECTION_CHECK |-> 5,
    MAX_WIND_SPEED_KMH                 |-> 35,
    MAX_PRECIPITATION_MM               |-> 5,
    DANGEROUS_WIND_DIRECTION_THRESHOLD |-> 50 ]

WrapEnv == [DefaultEnv EXCEPT !.WIND_DIRECTION_RANGES = WRAP_WIND_DIRECTION_RANGES]

\* Weights 50/30/20/10, which sum to 110.
HeavyEnv == [DefaultEnv EXCEPT !.WEIGHT_WIND_DIRECTION = 50]

Envs == {DefaultEnv, WrapEnv, HeavyEnv}

-----------------------------------------------------------------------------
(* Weather samples the scorer is run on                                    *)

Temperatures   == {50, 200}              \* 5.0 and 20.0 degrees
Dewpoints      == {33, 34, 40, 100}      \* 3.3, 3.4, 4.0 and 10.0 degrees
Precipitations == {0, 13, 200, 500, 600} \* 0, 0.13, 2, 5 and 6 mm
WindSpeeds     == {3, 5, 6, 15, 27, 35, 36}
WindDirections == {0, 10, 20, 30, 45, 60, 100, 180, 200, 315, 340, 350, 360}
CloudCovers    == {0, 3, 20, 30, 95}

Samples ==
  [ temperature   : Temperatures,
    dewpoint      : Dewpoints,
    precipitation : Precipitations,
    windSpeed     : WindSpeeds,
    windDirection : WindDirections,
    cloudCover    : CloudCovers ]

\* The sample of the scoring example: 15 km/h from 30 degrees, dry, 20% cloud.
ExampleSample ==
  [ temperature |-> 200, dewpoint |-> 100, precipitation |-> 0,
    windSpeed |-> 15, windDirection |-> 30, cloudCover |-> 20 ]

NoForecast == [percentage |-> -1]

-----------------------------------------------------------------------------
(* Scorer functions                                                        *)

\* Mutant of calculateCloudBase: the metres are truncated, not rounded.
calculateCloudBaseTruncated(temperature, dewpoint) ==
  (BREITENBERG_ELEVATION * 1000 + (temperature - dewpoint) * 12192) \div 1000

\* Math.round(ELEVATION + ((t - d) / 2.5) * 1000 * 0.3048), t and d in tenths:
\* the metres above ground are (t - d) * 12.192.
calculateCloudBase(temperature, dewpoint) ==
  Round(BREITENBERG_ELEVATION * 1000 + (temperature - dewpoint) * 12192, 1000)

directions ==
  << [name |-> "N",   min |-> 0,    max |-> 225],
     [name |-> "NNE", min |-> 225,  max |-> 450],
     [name |-> "NE",  min |-> 450,  max |-> 675],
     [name |-> "ENE", min |-> 675,  max |-> 900],
     [name |-> "E",   min |-> 900,  max |-> 1125],
     [name |-> "ESE", min |-> 1125, max |-> 1350],
     [name |-> "SE",  min |-> 1350, max |-> 1575],
     [name |-> "SSE", min |-> 1575, max |-> 1800],
     [name |-> "S",   min |-> 1800, max |-> 2025],
     [name |-> "SSW", min |-> 2025, max |-> 2250],
     [name |-> "SW",  min |-> 2250, max |-> 2475],
     [name |-> "WSW", min |-> 2475, max |-> 2700],
     [name |-> "W",   min |-> 2700, max |-> 2925],
     [name |-> "WNW", min |-> 2925, max |-> 3150],
     [name |-> "NW",  min |-> 3150, max |-> 3375],
     [name |-> "NNW", min |-> 3375, max |-> 3600] >>

\* The sector table is in tenths of a degree; the first matching sector wins.
getDirectionName(degrees) ==
  LET hits == {i \in 1..Len(directions) :
                 degrees * 10 >= directions[i].min /\ degrees * 10 < directions[i].max}
  IN  IF hits = {} THEN "N"
      ELSE directions[CHOOSE i \in hits : \A j \in hits : i <= j].name

getQualityLabel(score) ==
  IF score >= 90 THEN "Excellent"
  ELSE IF score >= 70 THEN "Good"
  ELSE IF score >= 50 THEN "Acceptable"
  ELSE IF score >= 30 THEN "Poor"
  ELSE "Bad"

\* Mutant of rangeMatches: a range with start > end is tested like any other.
rangeMatchesNoWrap(range, windDirection) ==
  windDirection >= range.start /\ windDirection <= range.end

\* The test of one range: a range with start > end wraps around 360/0.
rangeMatches(range, windDirection) ==
  IF range.start > range.end
  THEN windDirection >= range.start \/ windDirection <= range.end
  ELSE windDirection >= range.start /\ windDirection <= range.end

\* The first range of the table, in table order, that matches; 50 if none.
getWindDirectionScore(windDirection) ==
  LET ranges == env.WIND_DIRECTION_RANGES
      hits   == {i \in 1..Len(ranges) : rangeMatches(ranges[i], windDirection)}
  IN  IF hits = {} THEN 50
      ELSE ranges[CHOOSE i \in hits : \A j \in hits : i <= j].score

\* The earlier getWindDirectionScore, with fixed sectors.
getWindDirectionScoreFixedSectors(windDirection) ==
  IF (windDirection >= 315 /\ windDirection <= 360)
       \/ (windDirection >= 0 /\ windDirection <= 45) THEN 100
  ELSE IF windDirection > 45 /\ windDirection <= 90 THEN 100
  ELSE IF windDirection > 90 /\ windDirection <= 135 THEN 90
  ELSE IF windDirection > 135 /\ windDirection <= 180 THEN 60
  ELSE IF windDirection > 180 /\ windDirection <= 225 THEN 30
  ELSE IF windDirection > 225 /\ windDirection <= 270 THEN 20
  ELSE IF windDirection > 270 /\ windDirection < 315 THEN 10
  ELSE 50

getWindDirectionLabel(windDirection) ==
  << getDirectionName(windDirection),
     getQualityLabel(getWindDirectionScore(windDirection)) >>

isWindDirectionDangerous(windDirection) ==
  getWindDirectionScore(windDirection) <= env.DANGEROUS_WIND_DIRECTION_THRESHOLD

getWindSpeedLabel(windSpeed) ==
  IF windSpeed < 5 THEN "Too calm"
  ELSE IF windSpeed >= 5 /\ windSpeed <= 8 THEN "Light winds"
  ELSE IF windSpeed > 8 /\ windSpeed <= 24 THEN "Perfect range"
  ELSE IF windSpeed > 24 /\ windSpeed <= 29 THEN "Getting strong"
  ELSE IF windSpeed > 29 /\ windSpeed <= 35 THEN "Too strong"
  ELSE "Not flyable"

getWindSpeedScore(windSpeed) ==
  IF windSpeed < 5 THEN env.WIND_SPEED_0_5_SCORE
  ELSE IF windSpeed >= 5 /\ windSpeed <= 8 THEN env.WIND_SPEED_5_8_SCORE
  ELSE IF windSpeed > 8 /\ windSpeed <= 24 THEN env.WIND_SPEED_8_24_SCORE
  ELSE IF windSpeed > 24 /\ windSpeed <= 29 THEN env.WIND_SPEED_24_29_SCORE
  ELSE IF windSpeed > 29 /\ windSpeed <= 35 THEN env.WIND_SPEED_29_35_SCORE
  ELSE env.WIND_SPEED_35_PLUS_SCORE

cloudCoverLabel(cloudCover) ==
  IF cloudCover < 30 THEN "Clear"
  ELSE IF cloudCover < 70 THEN "Partly cloudy"
  ELSE "Heavy clouds"

\* Mutant of safetyChecks: the checks chained with else, so that only the
\* first violated limit is reported.
safetyChecksElseIf(precipitation, windSpeed, windDirection, cloudBase) ==
  IF cloudBase < BREITENBERG_ELEVATION + env.MIN_CLOUD_BASE_MARGIN
  THEN << [kind |-> "Cloud base", value |-> cloudBase,
           limit |-> BREITENBERG_ELEVATION + env.MIN_CLOUD_BASE_MARGIN] >>
  ELSE IF windSpeed > env.MAX_WIND_SPEED_KMH
  THEN << [kind |-> "Wind too strong", value |-> windSpeed,
           limit |-> env.MAX_WIND_SPEED_KMH] >>
  ELSE IF precipitation > env.MAX_PRECIPITATION_MM * 100
  THEN << [kind |-> "Heavy rain", value |-> precipitation,
           limit |-> env.MAX_PRECIPITATION_MM * 100] >>
  ELSE IF windSpeed > env.MIN_WIND_SPEED_FOR_DIRECTION_CHECK
          /\ isWindDirectionDangerous(windDirection)
  THEN << [kind |-> "Dangerous wind direction", value |-> windDirection,
           limit |-> windSpeed] >>
  ELSE <<>>

\* The hard limits, each checked on its own, in the order of the code.
safetyChecks(precipitation, windSpeed, windDirection, cloudBase) ==
  LET minRequiredCloudBase == BREITENBERG_ELEVATION + env.MIN_CLOUD_BASE_MARGIN
      isCloudBaseSafe      == cloudBase >= minRequiredCloudBase
  IN  (IF ~isCloudBaseSafe
       THEN << [kind |-> "Cloud base", value |-> cloudBase,
                limit |-> minRequiredCloudBase] >>
       ELSE <<>>)
      \o
      (IF windSpeed > env.MAX_WIND_SPEED_KMH
       THEN << [kind |-> "Wind too strong", value |-> windSpeed,
                limit |-> env.MAX_WIND_SPEED_KMH] >>
       ELSE <<>>)
      \o
      (IF precipitation > env.MAX_PRECIPITATION_MM * 100
       THEN << [kind |-> "Heavy rain", value |-> precipitation,
                limit |-> env.MAX_PRECIPITATION_MM * 100] >>
       ELSE <<>>)
      \o
      (IF windSpeed > env.MIN_WIND_SPEED_FOR_DIRECTION_CHECK
          /\ isWindDirectionDangerous(windDirection)
       THEN << [kind |-> "Dangerous wind direction", value |-> windDirection,
                limit |-> windSpeed] >>
       ELSE <<>>)

cloudBaseRecord(cloudBase) ==
  [ value       |-> cloudBase,
    minRequired |-> BREITENBERG_ELEVATION + env.MIN_CLOUD_BASE_MARGIN,
    isSafe      |-> cloudBase >= BREITENBERG_ELEVATION + env.MIN_CLOUD_BASE_MARGIN ]

\* Mutant of notFlyable: the percentage and the total are zeroed, the
\* categories keep their weighted scores.
notFlyableKeepsScores(precipitation, windSpeed, windDirection, cloudCover, cloudBase, safetyViolations) ==
  [ percentage |-> 0,
    conditions |-> << "NOT FLYABLE - Safety constraints violated" >>,
    breakdown  |->
      [ windDirection |-> [ value |-> windDirection,
                            score |-> getWindDirectionScore(windDirection) * 100,
                            weight |-> env.WEIGHT_WIND_DIRECTION,
                            points |-> Round(getWindDirectionScore(windDirection) * 100
                                               * env.WEIGHT_WIND_DIRECTION, 1000),
                            label |-> getWindDirectionLabel(windDirection) ],
        windSpeed     |-> [ value |-> windSpeed,
                            score |-> getWindSpeedScore(windSpeed) * 100,
                            weight |-> env.WEIGHT_WIND_SPEED,
                            points |-> Round(getWindSpeedScore(windSpeed) * 100
                                               * env.WEIGHT_WIND_SPEED, 1000),
                            label |-> << getWindSpeedLabel(windSpeed) >> ],
        precipitation |-> [ value |-> precipitation, score |-> 0,
                            weight |-> env.WEIGHT_PRECIPITATION, points |-> 0,
                            label |-> << "rain", precipitation >> ],
        cloudCover    |-> [ value |-> cloudCover,
                            score |-> Max(0, 100 - cloudCover) * 100,
                            weight |-> env.WEIGHT_CLOUD_COVER,
                            points |-> Round(Max(0, 100 - cloudCover) * 100
                                               * env.WEIGHT_CLOUD_COVER, 1000),
                            label |-> << cloudCoverLabel(cloudCover) >> ],
        cloudBase        |-> cloudBaseRecord(cloudBase),
        safetyViolations |-> safetyViolations,
        total            |-> 0 ] ]

\* The early return taken when a hard limit is violated.
notFlyable(precipitation, windSpeed, windDirection, cloudCover, cloudBase, safetyViolations) ==
  [ percentage |-> 0,
    conditions |-> << "NOT FLYABLE - Safety constraints violated" >>,
    breakdown  |->
      [ windDirection |-> [ value |-> windDirection, score |-> 0,
                            weight |-> env.WEIGHT_WIND_DIRECTION, points |-> 0,
                            label |-> getWindDirectionLabel(windDirection) ],
        windSpeed     |-> [ value |-> windSpeed, score |-> 0,
                            weight |-> env.WEIGHT_WIND_SPEED, points |-> 0,
                            label |-> << getWindSpeedLabel(windSpeed) >> ],
        precipitation |-> [ value |-> precipitation, score |-> 0,
                            weight |-> env.WEIGHT_PRECIPITATION, points |-> 0,
                            label |-> << "rain", precipitation >> ],
        cloudCover    |-> [ value |-> cloudCover, score |-> 0,
                            weight |-> env.WEIGHT_CLOUD_COVER, points |-> 0,
                            label |-> << cloudCoverLabel(cloudCover) >> ],
        cloudBase        |-> cloudBaseRecord(cloudBase),
        safetyViolations |-> safetyViolations,
        total            |-> 0 ] ]

\* precipScore, in hundredths of a point (precipitation is in hundredths of a mm).
precipitationScore(precipitation) ==
  IF precipitation > 0
  THEN Max(0, 10000 - precipitation * env.PRECIPITATION_PENALTY_PER_MM)
  ELSE 10000

\* Mutant of totalPercentage: the sum is truncated, not rounded.
totalTruncated(directionPoints, speedPoints, precipPoints, cloudPoints) ==
  (directionPoints + speedPoints + precipPoints + cloudPoints) \div 10000

\* Mutant of totalPercentage: the total taken from the points as displayed.
totalOfDisplayedPoints(directionPoints, speedPoints, precipPoints, cloudPoints) ==
  Round(Round(directionPoints, 1000) + Round(speedPoints, 1000)
          + Round(precipPoints, 1000) + Round(cloudPoints, 1000), 10)

\* Mutant of totalPercentage: the sum is scaled to weights that sum to 100.
totalRenormalized(directionPoints, speedPoints, precipPoints, cloudPoints) ==
  Round((directionPoints + speedPoints + precipPoints + cloudPoints) * 100,
        10000 * (env.WEIGHT_WIND_DIRECTION + env.WEIGHT_WIND_SPEED
                   + env.WEIGHT_PRECIPITATION + env.WEIGHT_CLOUD_COVER))

\* Math.round(totalScore): the sum of the four unrounded category points.
totalPercentage(directionPoints, speedPoints, precipPoints, cloudPoints) ==
  Round(directionPoints + speedPoints + precipPoints + cloudPoints, 10000)

\* Math.round(points * 10) / 10, in tenths of a point.
reportedPoints(points) == Round(points, 1000)

\* The weighted computation taken when no hard limit is violated.
weightedScore(precipitation, windSpeed, windDirection, cloudCover, cloudBase, safetyViolations) ==
  LET directionScore  == getWindDirectionScore(windDirection) * 100
      directionPoints == directionScore * env.WEIGHT_WIND_DIRECTION
      speedScore      == getWindSpeedScore(windSpeed) * 100
      speedPoints     == speedScore * env.WEIGHT_WIND_SPEED
      precipScore     == precipitationScore(precipitation)
      precipPoints    == precipScore * env.WEIGHT_PRECIPITATION
      cloudScore      == Max(0, 100 - cloudCover) * 100
      cloudPoints     == cloudScore * env.WEIGHT_CLOUD_COVER
      total           == totalPercentage(directionPoints, speedPoints, precipPoints, cloudPoints)
  IN
  [ percentage |-> total,
    conditions |->
      << IF directionScore >= 9000 THEN "Optimal wind direction"
         ELSE IF directionScore >= 6000 THEN "Acceptable wind direction"
         ELSE "Poor wind direction",
         IF speedScore >= 9000 THEN "Ideal wind speed"
         ELSE IF speedScore >= 6000 THEN "Manageable wind speed"
         ELSE IF windSpeed > 29 THEN "Wind too strong"
         ELSE "Wind too light",
         IF precipitation > 0
         THEN (IF precipitation > 200 THEN "Rain expected" ELSE "Light precipitation")
         ELSE "No precipitation",
         IF cloudCover < 30 THEN "Clear skies"
         ELSE IF cloudCover < 70 THEN "Partly cloudy"
         ELSE "Heavy cloud cover" >>,
    breakdown  |->
      [ windDirection |-> [ value |-> windDirection, score |-> directionScore,
                            weight |-> env.WEIGHT_WIND_DIRECTION,
                            points |-> reportedPoints(directionPoints),
                            label |-> getWindDirectionLabel(windDirection) ],
        windSpeed     |-> [ value |-> windSpeed, score |-> speedScore,
                            weight |-> env.WEIGHT_WIND_SPEED,
                            points |-> reportedPoints(speedPoints),
                            label |-> << getWindSpeedLabel(windSpeed) >> ],
        precipitation |-> [ value |-> precipitation, score |-> precipScore,
                            weight |-> env.WEIGHT_PRECIPITATION,
                            points |-> reportedPoints(precipPoints),
                            label |-> IF precipitation > 0
                                      THEN << "rain", precipitation >>
                                      ELSE << "No rain", 0 >> ],
        cloudCover    |-> [ value |-> cloudCover, score |-> cloudScore,
                            weight |-> env.WEIGHT_CLOUD_COVER,
                            points |-> reportedPoints(cloudPoints),
                            label |-> << cloudCoverLabel(cloudCover) >> ],
        cloudBase        |-> cloudBaseRecord(cloudBase),
        safetyViolations |-> safetyViolations,
        total            |-> total ] ]

calculateTakeoffPercentage(temperature, dewpoint, precipitation, windSpeed, windDirection, cloudCover, cloudBase) ==
  LET safetyViolations == safetyChecks(precipitation, windSpeed, windDirection, cloudBase)
  IN  IF Len(safetyViolations) > 0
      THEN notFlyable(precipitation, windSpeed, windDirection, cloudCover,
                      cloudBase, safetyViolations)
      ELSE weightedScore(precipitation, windSpeed, windDirection, cloudCover,
                         cloudBase, safetyViolations)

-----------------------------------------------------------------------------
(* Scorer: one day of the forecast loop of GET                             *)

\* The body of the per-day loop: cloud base, then the takeoff percentage.
ScoreSample ==
  /\ forecast = NoForecast
  /\ LET cloudBase == calculateCloudBase(sample.temperature, sample.dewpoint)
     IN  forecast' = calculateTakeoffPercentage(
                       sample.temperature, sample.dewpoint, sample.precipitation,
                       sample.windSpeed, sample.windDirection, sample.cloudCover,
                       cloudBase)
  /\ UNCHANGED <<env, sample>>
  /\ UNCHANGED <<analyzerVars, readerVars>>

-----------------------------------------------------------------------------
(* Review analyzer: data                                                   *)

ReviewIds == {"r1", "r2"}

\* The star rating the scraper recorded for each review.
starRatingOf(id) == IF id = "r1" THEN 5 ELSE 2

Review(id) == [id |-> id, starRating |-> starRatingOf(id)]

\* The corpora the scraper may leave in data/reviews.json (ids are unique).
Corpora ==
  { <<>>,
    << Review("r1") >>,
    << Review("r2"), Review("r1") >> }

\* A JavaScript object is a function from the keys it has to their values;
\* {} and [] are both the empty function.
EmptyObject == <<>>

\* obj.key || fallback, for the object and array values used here.
OrElse(obj, key, fallback) == IF key \in DOMAIN obj THEN obj[key] ELSE fallback

Metrics == {"overallExperience", "safetyProfessionalism", "valueForMoney",
            "staffServiceQuality"}

Topics == {"safety", "sceneryLocation", "firstTimeExperience", "wouldRecommend",
           "issuesProblems"}

\* Objects the model may emit.
FullResult ==
  [ sentimentScores    |-> [ overallExperience |-> 95, safetyProfessionalism |-> 100,
                             valueForMoney |-> 90, staffServiceQuality |-> 95 ],
    topicsMentioned    |-> [ safety |-> TRUE, sceneryLocation |-> TRUE,
                             firstTimeExperience |-> FALSE, wouldRecommend |-> TRUE,
                             issuesProblems |-> FALSE ],
    positiveHighlights |-> << "very professional", "made me feel safe" >>,
    concerns           |-> << "long wait" >>,
    hiddenCosts        |-> << "photos cost extra" >>,
    suggestions        |-> << "offer a shuttle", "earlier slots", "online booking",
                              "more photos", "shorter wait", "clearer signs",
                              "warm drinks", "card payment", "weight info",
                              "better briefing", "longer flight", "offer a shuttle" >>,
    keyWords           |-> << "Flight", "pilot" >>,
    pilots             |-> << [ pilotName |-> "Max", rating |-> 5, confidence |-> "high",
                                sentimentScores |->
                                  [ overallExperience |-> 95, safetyProfessionalism |-> 100,
                                    valueForMoney |-> 90, staffServiceQuality |-> 95 ],
                                positiveHighlights |-> << "very professional" >>,
                                concerns |-> <<>> ] >> ]

\* An object that lacks some of the requested fields, also within its pilot
\* mentions.
SparseResult ==
  [ sentimentScores |-> [ overallExperience |-> 40 ],
    concerns        |-> << "long wait", "5", "cold", "expensive", "crowded", "late start" >>,
    hiddenCosts     |-> << "transport", "photos cost extra", "transport" >>,
    keyWords        |-> << "flight", "5" >>,
    pilots          |-> << [ pilotName |-> "Max", rating |-> 3, confidence |-> "medium",
                             positiveHighlights |-> << "very professional" >> ],
                           [ pilotName |-> "Max K.", rating |-> 4, confidence |-> "low",
                             positiveHighlights |-> << "funny", "very professional" >>,
                             concerns |-> << "late" >> ],
                           [ pilotName |-> "Max K.", rating |-> 2, confidence |-> "low" ] >> ]

\* The value null.
Null == [null |-> TRUE]

\* The text of a completion is a sequence of segments: prose without braces,
\* a stray "{", a stray "}", the text of a JSON object, the literal null, or
\* a number literal (valid JSON whose value has none of the fields read, so
\* that every parsedResult.<key> of it is undefined, as for {}).
Prose     == [t |-> "prose", v |-> EmptyObject]
OpenBrace == [t |-> "{",     v |-> EmptyObject]
ShutBrace == [t |-> "}",     v |-> EmptyObject]
Obj(v)    == [t |-> "object", v |-> v]
NullLiteral   == [t |-> "literal", v |-> Null]
NumberLiteral == [t |-> "literal", v |-> EmptyObject]

Contents ==
  { << Obj(FullResult) >>,
    << Obj(SparseResult) >>,
    << Obj(EmptyObject) >>,
    << NullLiteral >>,
    << NumberLiteral >>,
    << Prose, Obj(FullResult), Prose >>,
    << Prose, Obj(SparseResult) >>,
    << Obj(FullResult), Prose, Obj(SparseResult) >>,
    << Prose >>,
    << OpenBrace, Prose >>,
    << ShutBrace, Prose, OpenBrace >>,
    << OpenBrace, Prose, ShutBrace >>,
    <<>> }

\* What one model call can come to.
Outcomes ==
  { [kind |-> k, content |-> <<>>] :
      k \in {"network error", "timeout", "status not ok", "malformed body"} }
  \cup { [kind |-> "ok", content |-> c] : c \in Contents }

\* The persisted cache: no file, a file holding a cache, or a file that does
\* not parse (left by a write that failed after the file was truncated).
NoFile       == [kind |-> "missing", data |-> <<>>]
CorruptFile  == [kind |-> "corrupt", data |-> <<>>]
CacheOf(c)   == [kind |-> "cache",   data |-> c]

NoResponse == [status |-> 0]

Procs == {1, 2}

-----------------------------------------------------------------------------
(* Review analyzer: parsing and the two fallback entries                   *)

\* JSON.parse(text): succeeds exactly on the text of one JSON value.
isJSON(text) == Len(text) = 1 /\ text[1].t \in {"object", "literal"}

\* content.match(/\{[\s\S]*\}/): from the first "{" to the last "}" after it.
\* <<>> stands for null (no match).
jsonMatch(content) ==
  LET opens == {i \in 1..Len(content) : content[i].t \in {"{", "object"}}
      shuts == {i \in 1..Len(content) : content[i].t \in {"}", "object"}}
      first == CHOOSE i \in opens : \A j \in opens : i <= j
      last  == CHOOSE i \in shuts : \A j \in shuts : i >= j
  IN  IF opens = {} \/ shuts = {} THEN <<>>
      ELSE IF last < first THEN <<>>
      ELSE SubSeq(content, first, last)

\* Mutant of defaultParsedResult: the three other metrics at the neutral 50.
defaultParsedResultNeutral(review) ==
  [ sentimentScores    |-> [ overallExperience     |-> review.starRating * 20,
                             safetyProfessionalism |-> 50,
                             valueForMoney         |-> 50,
                             staffServiceQuality   |-> 50 ],
    topicsMentioned    |-> [t \in Topics |-> FALSE],
    positiveHighlights |-> <<>>,
    concerns           |-> <<>>,
    hiddenCosts        |-> <<>>,
    suggestions        |-> <<>>,
    keyWords           |-> <<>>,
    pilots             |-> <<>> ]

\* "Default empty analysis": the parsedResult used when the text has no match.
defaultParsedResult(review) ==
  [ sentimentScores    |-> [ overallExperience     |-> review.starRating * 20,
                             safetyProfessionalism |-> review.starRating * 20,
                             valueForMoney         |-> review.starRating * 20,
                             staffServiceQuality   |-> review.starRating * 20 ],
    topicsMentioned    |-> [ safety |-> FALSE, sceneryLocation |-> FALSE,
                             firstTimeExperience |-> FALSE, wouldRecommend |-> FALSE,
                             issuesProblems |-> FALSE ],
    positiveHighlights |-> <<>>,
    concerns           |-> <<>>,
    hiddenCosts        |-> <<>>,
    suggestions        |-> <<>>,
    keyWords           |-> <<>>,
    pilots             |-> <<>> ]

\* The parse block: [threw |-> TRUE] when JSON.parse of the match throws.
parseContent(review, content) ==
  IF isJSON(content)
  THEN [threw |-> FALSE, parsedResult |-> content[1].v]
  ELSE LET match == jsonMatch(content)
       IN  IF match # <<>>
           THEN IF isJSON(match)
                THEN [threw |-> FALSE, parsedResult |-> match[1].v]
                ELSE [threw |-> TRUE,  parsedResult |-> EmptyObject]
           ELSE [threw |-> FALSE, parsedResult |-> defaultParsedResult(review)]

\* "Store in cache": the entry built from a parsed result.
storedEntry(review, parsedResult, time) ==
  [ reviewId           |-> review.id,
    sentimentScores    |-> OrElse(parsedResult, "sentimentScores", EmptyObject),
    topicsMentioned    |-> OrElse(parsedResult, "topicsMentioned", EmptyObject),
    positiveHighlights |-> OrElse(parsedResult, "positiveHighlights", <<>>),
    concerns           |-> OrElse(parsedResult, "concerns", <<>>),
    hiddenCosts        |-> OrElse(parsedResult, "hiddenCosts", <<>>),
    suggestions        |-> OrElse(parsedResult, "suggestions", <<>>),
    keyWords           |-> OrElse(parsedResult, "keyWords", <<>>),
    pilots             |-> OrElse(parsedResult, "pilots", <<>>),
    analyzedAt         |-> time ]

\* Mutant of catchEntry: every metric derived from the star rating.
catchEntryAllFromRating(review, time) ==
  [ storedEntry(review, defaultParsedResult(review), time) EXCEPT
      !.sentimentScores = [m \in Metrics |-> review.starRating * 20] ]

\* The entry written by the catch block of the per-review try.
catchEntry(review, time) ==
  [ reviewId           |-> review.id,
    sentimentScores    |-> [ overallExperience     |-> review.starRating * 20,
                             safetyProfessionalism |-> 50,
                             valueForMoney         |-> 50,
                             staffServiceQuality   |-> 50 ],
    topicsMentioned    |-> [ safety |-> FALSE, sceneryLocation |-> FALSE,
                             firstTimeExperience |-> FALSE, wouldRecommend |-> FALSE,
                             issuesProblems |-> FALSE ],
    positiveHighlights |-> <<>>,
    concerns           |-> <<>>,
    hiddenCosts        |-> <<>>,
    suggestions        |-> <<>>,
    keyWords           |-> <<>>,
    pilots             |-> <<>>,
    analyzedAt         |-> time ]

\* An AnalysisCache is the sequence of its entries in the order of its keys
\* (the order in which they were first set, which JSON.stringify and
\* JSON.parse keep); the key of an entry is its reviewId.
EmptyCache == <<>>

Keys(c) == {c[i].reviewId : i \in 1..Len(c)}

\* cache[id], for a key the cache has.
Lookup(c, id) == c[CHOOSE i \in 1..Len(c) : c[i].reviewId = id]

\* cache[id] = entry: an existing key keeps its place, a new one goes last.
Put(c, id, entry) ==
  IF id \in Keys(c)
  THEN [i \in 1..Len(c) |-> IF c[i].reviewId = id THEN entry ELSE c[i]]
  ELSE Append(c, entry)

\* Mutant of selectReviews: the cache is not consulted.
selectEveryReview(rs, c, all) == rs

\* Mutant of selectReviews: the analyzeAll flag is not consulted.
selectUncachedReviews(rs, c, all) ==
  SelectSeq(rs, LAMBDA review : review.id \notin Keys(c))

\* reviews.filter(review => analyzeAll || !cache[review.id])
selectReviews(rs, c, all) ==
  SelectSeq(rs, LAMBDA review : all \/ review.id \notin Keys(c))

-----------------------------------------------------------------------------
(* Review analyzer: aggregateAnalytics                                     *)

\* numbers.reduce((a, b) => a + b, 0)
RECURSIVE sum(_)
sum(numbers) == IF numbers = <<>> THEN 0 ELSE Head(numbers) + sum(Tail(numbers))

\* The elements of the lists of a list, in order (forEach within forEach,
\* push(...list)).
RECURSIVE concat(_)
concat(lists) == IF lists = <<>> THEN <<>> ELSE Head(lists) \o concat(Tail(lists))

\* word.toLowerCase(), on the words the results use.
toLowerCase(word) == IF word = "Flight" THEN "flight" ELSE word

\* The number a key stands for when it is a canonical array index ("5"),
\* -1 for any other key; on the phrases and words the results use.
arrayIndex(key) == IF key = "5" THEN 5 ELSE -1

\* counts[key] = (counts[key] || 0) + 1.  A counting object is the sequence
\* of its [key, count] entries in the order of Object.entries: the keys that
\* are array indices first, in ascending numeric order, then the other keys
\* in the order in which they were first set.
increment(counts, key) ==
  LET at    == {i \in 1..Len(counts) : counts[i].key = key}
      lower == {i \in 1..Len(counts) :
                  arrayIndex(counts[i].key) >= 0 /\ arrayIndex(counts[i].key) < arrayIndex(key)}
      fresh == [key |-> key, count |-> 1]
  IN  IF at # {}
      THEN [i \in 1..Len(counts) |->
              IF i \in at THEN [counts[i] EXCEPT !.count = @ + 1] ELSE counts[i]]
      ELSE IF arrayIndex(key) < 0
      THEN Append(counts, fresh)
      ELSE SubSeq(counts, 1, Cardinality(lower)) \o << fresh >>
             \o SubSeq(counts, Cardinality(lower) + 1, Len(counts))

\* keys.forEach(key => { counts[key] = (counts[key] || 0) + 1 })
RECURSIVE countEach(_, _)
countEach(counts, keys) ==
  IF keys = <<>> THEN counts
  ELSE countEach(increment(counts, Head(keys)), Tail(keys))

\* entries.sort((a, b) => b[1] - a[1]): by count, largest first; the sort is
\* stable, so entries of equal count keep their order.
RECURSIVE sortByCount(_)
sortByCount(entries) ==
  IF entries = <<>> THEN <<>>
  ELSE LET entry   == entries[Len(entries)]
           sorted  == sortByCount(SubSeq(entries, 1, Len(entries) - 1))
           smaller == {i \in 1..Len(sorted) : sorted[i].count < entry.count}
           at      == IF smaller = {} THEN Len(sorted) + 1
                      ELSE CHOOSE i \in smaller : \A j \in smaller : i <= j
       IN  SubSeq(sorted, 1, at - 1) \o << entry >> \o SubSeq(sorted, at, Len(sorted))

\* list.slice(0, n)
slice(list, n) == SubSeq(list, 1, IF Len(list) < n THEN Len(list) ELSE n)

\* Mutant of unique: the last occurrence of each element, in order.
uniqueKeepLast(list) ==
  LET keep == {i \in 1..Len(list) : \A j \in (i + 1)..Len(list) : list[j] # list[i]}
  IN  [k \in 1..Cardinality(keep) |->
         list[CHOOSE i \in keep : Cardinality({j \in keep : j < i}) = k - 1]]

\* [...new Set(list)]: the first occurrence of each element, in order.
RECURSIVE unique(_)
unique(list) ==
  IF list = <<>> THEN <<>>
  ELSE LET front == unique(SubSeq(list, 1, Len(list) - 1))
           last  == list[Len(list)]
       IN  IF \E i \in 1..Len(front) : front[i] = last THEN front
           ELSE Append(front, last)

\* Object.entries(counts).sort(...).slice(0, n)
top(keys, n) == slice(sortByCount(countEach(<<>>, keys)), n)

\* .map(([phrase, count]) => ({ phrase, count }))
asPhrases(entries) ==
  [i \in 1..Len(entries) |-> [phrase |-> entries[i].key, count |-> entries[i].count]]

\* .map(([concern, count]) => ({ concern, count }))
asConcerns(entries) ==
  [i \in 1..Len(entries) |-> [concern |-> entries[i].key, count |-> entries[i].count]]

\* .map(([word, frequency]) => ({ word, frequency }))
asWords(entries) ==
  [i \in 1..Len(entries) |-> [word |-> entries[i].key, frequency |-> entries[i].count]]

\* The values of one list field over the analyses, in order.
collect(analyses, field) ==
  concat([i \in 1..Len(analyses) |-> OrElse(analyses[i], field, <<>>)])

\* Mutant of averageOf: the total is divided by the number of holders that
\* have the metric.
averageOfPresent(holders, metric, count) ==
  Round(sum([i \in 1..Len(holders) |->
               OrElse(OrElse(holders[i], "sentimentScores", EmptyObject), metric, 0)]),
        Max(1, Cardinality({i \in 1..Len(holders) :
                 metric \in DOMAIN OrElse(holders[i], "sentimentScores", EmptyObject)})))

\* Math.round(total / count) of a metric, each value being
\* analysis.sentimentScores?.<metric> || 0.
averageOf(holders, metric, count) ==
  Round(sum([i \in 1..Len(holders) |->
               OrElse(OrElse(holders[i], "sentimentScores", EmptyObject), metric, 0)]),
        count)

\* The pilot mentions of the analyses, in order, each with its review.
pilotMentions(analyses) ==
  concat([i \in 1..Len(analyses) |->
            LET pilots == OrElse(analyses[i], "pilots", <<>>)
            IN  [j \in 1..Len(pilots) |->
                   [reviewId |-> analyses[i].reviewId, pilot |-> pilots[j]]]])

\* Mutant of pilotStatsOf: the mentions of a pilot are taken latest first.
pilotStatsOfLatestFirst(analyses, name) ==
  LET found   == SelectSeq(pilotMentions(analyses), LAMBDA m : m.pilot.pilotName = name)
      mine    == [i \in 1..Len(found) |-> found[Len(found) + 1 - i]]
      pilots  == [i \in 1..Len(mine) |-> mine[i].pilot]
      ratings == [i \in 1..Len(mine) |-> mine[i].pilot.rating]
  IN  [ name                   |-> name,
        totalMentions          |-> Len(mine),
        ratings                |-> ratings,
        averageRating          |-> [sum |-> sum(ratings), length |-> Len(ratings)],
        reviews                |-> [i \in 1..Len(mine) |-> mine[i].reviewId],
        averageSentimentScores |-> [m \in Metrics |-> averageOf(pilots, m, Len(mine))],
        topPositiveHighlights  |-> asPhrases(top(collect(pilots, "positiveHighlights"), 5)),
        topConcerns            |-> asConcerns(top(collect(pilots, "concerns"), 5)) ]

\* pilotStats[name] once the averages and the tops are computed.
pilotStatsOf(analyses, name) ==
  LET mine    == SelectSeq(pilotMentions(analyses), LAMBDA m : m.pilot.pilotName = name)
      pilots  == [i \in 1..Len(mine) |-> mine[i].pilot]
      ratings == [i \in 1..Len(mine) |-> mine[i].pilot.rating]
  IN  [ name                   |-> name,
        totalMentions          |-> Len(mine),
        ratings                |-> ratings,
        \* the quotient sum / length, kept exact
        averageRating          |-> [sum |-> sum(ratings), length |-> Len(ratings)],
        reviews                |-> [i \in 1..Len(mine) |-> mine[i].reviewId],
        averageSentimentScores |-> [m \in Metrics |-> averageOf(pilots, m, Len(mine))],
        topPositiveHighlights  |-> asPhrases(top(collect(pilots, "positiveHighlights"), 5)),
        topConcerns            |-> asConcerns(top(collect(pilots, "concerns"), 5)) ]

\* Mutant of emptyAnalytics: an empty cache has no analytics.
emptyAnalyticsNull == Null

\* The result for an empty cache.
emptyAnalytics ==
  [ averageSentimentScores |-> [m \in Metrics |-> 0],
    topicFrequency         |-> [t \in Topics |-> 0],
    topPositivePhrases     |-> <<>>,
    topConcerns            |-> <<>>,
    commonHiddenCosts      |-> <<>>,
    improvementSuggestions |-> <<>>,
    wordCloud              |-> <<>>,
    pilotStats             |-> <<>> ]

\* aggregateAnalytics(cache).  analyses is Object.values(cache): the entries
\* in key order (review ids are no array indices).  pilotStats is the
\* sequence of its values in key order, each carrying its key as name.
aggregateAnalytics(c) ==
  LET analyses == c
      count    == Len(analyses)
      words    == collect(analyses, "keyWords")
      names    == LET mentions == pilotMentions(analyses)
                  IN  unique([i \in 1..Len(mentions) |-> mentions[i].pilot.pilotName])
  IN  IF count = 0 THEN emptyAnalytics
      ELSE
        [ averageSentimentScores |-> [m \in Metrics |-> averageOf(analyses, m, count)],
          topicFrequency         |->
            [t \in Topics |->
               Cardinality({i \in 1..count :
                              OrElse(OrElse(analyses[i], "topicsMentioned", EmptyObject),
                                     t, FALSE)})],
          topPositivePhrases     |-> asPhrases(top(collect(analyses, "positiveHighlights"), 5)),
          topConcerns            |-> asConcerns(top(collect(analyses, "concerns"), 5)),
          commonHiddenCosts      |-> slice(unique(collect(analyses, "hiddenCosts")), 10),
          improvementSuggestions |-> slice(unique(collect(analyses, "suggestions")), 10),
          wordCloud              |->
            asWords(top([i \in 1..Len(words) |-> toLowerCase(words[i])], 30)),
          pilotStats             |->
            [i \in 1..Len(names) |-> pilotStatsOf(analyses, names[i])] ]

-----------------------------------------------------------------------------
(* Review analyzer: the POST handler, one action per await point           *)

MaxRuns == 2

\* The state of an invocation slot that is not running.
NoAudit == [cacheFileAtStart |-> NoFile, cacheAsRead |-> EmptyCache,
            readOk |-> FALSE, reads |-> 0, writes |-> 0, writeFailed |-> FALSE,
            failures |-> 0, overlapped |-> FALSE,
            lastCall |-> [id |-> "", kind |-> "none", content |-> <<>>]]

ErrorResponse(message) ==
  [status |-> 500, error |-> "Failed to analyze reviews", details |-> message]

\* Mutant of SuccessResponse: the aggregate is taken over the entries of the
\* work set only.
SuccessResponseOfWorkSet(p) ==
  [ status          |-> 200,
    success         |-> TRUE,
    analyzedCount   |-> analyzedCount[p],
    totalReviews    |-> Len(reviews[p]),
    analyzedReviews |-> Len(cache[p]),
    aggregated      |-> aggregateAnalytics(
                          SelectSeq(cache[p], LAMBDA entry :
                            \E i \in 1..Len(reviewsToAnalyze[p]) :
                              reviewsToAnalyze[p][i].id = entry.reviewId)),
    cache           |-> cache[p] ]

SuccessResponse(p) ==
  [ status          |-> 200,
    success         |-> TRUE,
    analyzedCount   |-> analyzedCount[p],
    totalReviews    |-> Len(reviews[p]),
    analyzedReviews |-> Len(cache[p]),
    aggregated      |-> aggregateAnalytics(cache[p]),
    cache           |-> cache[p] ]

\* A request arrives: const { analyzeAll = false } = await request.json()
\* Invocations are interchangeable: a request takes the first free slot.
StartRun(p) ==
  /\ pc[p] = "idle"
  /\ \A q \in Procs : q < p => pc[q] # "idle"
  /\ now < MaxRuns
  /\ now' = now + 1
  /\ \E all \in BOOLEAN : analyzeAll' = [analyzeAll EXCEPT ![p] = all]
  /\ pc' = [pc EXCEPT ![p] = "readReviews"]
  /\ audit' = [q \in Procs |->
                 IF q = p
                 THEN [NoAudit EXCEPT !.cacheFileAtStart = cacheFile,
                                      !.overlapped = \E r \in Procs \ {p} : pc[r] # "idle"]
                 ELSE IF pc[q] # "idle" THEN [audit[q] EXCEPT !.overlapped = TRUE]
                 ELSE audit[q]]
  /\ UNCHANGED <<apiKey, reviewsFile, cacheFile, reviews, cache, reviewsToAnalyze,
                 analyzedCount, position, response>>
  /\ UNCHANGED scorerVars
  /\ got' = NoResponse

\* await fs.readFile(reviewsPath) and JSON.parse succeed.
ReadReviews(p) ==
  /\ pc[p] = "readReviews"
  /\ reviews' = [reviews EXCEPT ![p] = reviewsFile]
  /\ pc' = [pc EXCEPT ![p] = "readCache"]
  /\ UNCHANGED <<apiKey, reviewsFile, cacheFile, now, analyzeAll, cache,
                 reviewsToAnalyze, analyzedCount, position, response, audit>>
  /\ UNCHANGED scorerVars
  /\ got' = NoResponse

\* Reading the corpus throws: the outer catch answers 500.
ReadReviewsFails(p) ==
  /\ pc[p] = "readReviews"
  /\ response' = [response EXCEPT ![p] = ErrorResponse("reviews unreadable")]
  /\ pc' = [pc EXCEPT ![p] = "done"]
  /\ UNCHANGED <<apiKey, reviewsFile, cacheFile, now, analyzeAll, reviews, cache,
                 reviewsToAnalyze, analyzedCount, position, audit>>
  /\ UNCHANGED scorerVars
  /\ got' = NoResponse

\* Mutant of afterCacheRead: the AI_SECRET_KEY check is left out.
afterCacheReadNoKeyCheck(p, c, ok) ==
  LET todo == selectReviews(reviews[p], c, analyzeAll[p])
  IN
  /\ cache' = [cache EXCEPT ![p] = c]
  /\ reviewsToAnalyze' = [reviewsToAnalyze EXCEPT ![p] = todo]
  /\ audit' = [audit EXCEPT ![p].cacheAsRead = c, ![p].readOk = ok,
                            ![p].reads = @ + 1]
  /\ analyzedCount' = [analyzedCount EXCEPT ![p] = 0]
  /\ position' = [position EXCEPT ![p] = 1]
  /\ pc' = [pc EXCEPT ![p] = IF todo = <<>> THEN "write" ELSE "fetch"]
  /\ UNCHANGED response
  /\ UNCHANGED <<apiKey, reviewsFile, cacheFile, now, analyzeAll, reviews>>
  /\ UNCHANGED scorerVars
  /\ got' = NoResponse

\* The synchronous code that follows the cache read: the selection of the
\* work set, the AI_SECRET_KEY check and the entry into the for loop.
afterCacheRead(p, c, ok) ==
  LET todo == selectReviews(reviews[p], c, analyzeAll[p])
  IN
  /\ cache' = [cache EXCEPT ![p] = c]
  /\ reviewsToAnalyze' = [reviewsToAnalyze EXCEPT ![p] = todo]
  /\ audit' = [audit EXCEPT ![p].cacheAsRead = c, ![p].readOk = ok,
                            ![p].reads = @ + 1]
  /\ IF ~apiKey
     THEN /\ response' = [response EXCEPT ![p] = ErrorResponse("AI_SECRET_KEY not configured")]
          /\ pc' = [pc EXCEPT ![p] = "done"]
          /\ UNCHANGED <<analyzedCount, position>>
     ELSE /\ analyzedCount' = [analyzedCount EXCEPT ![p] = 0]
          /\ position' = [position EXCEPT ![p] = 1]
          /\ pc' = [pc EXCEPT ![p] = IF todo = <<>> THEN "write" ELSE "fetch"]
          /\ UNCHANGED response
  /\ UNCHANGED <<apiKey, reviewsFile, cacheFile, now, analyzeAll, reviews>>
  /\ UNCHANGED scorerVars
  /\ got' = NoResponse

\* Mutant of ReadCache: the file is read and its entries are not taken over.
ReadCacheIgnored(p) ==
  /\ pc[p] = "readCache"
  /\ cacheFile.kind = "cache"
  /\ afterCacheRead(p, EmptyCache, TRUE)

\* await fs.readFile(cachePath) and JSON.parse succeed.
ReadCache(p) ==
  /\ pc[p] = "readCache"
  /\ cacheFile.kind = "cache"
  /\ afterCacheRead(p, cacheFile.data, TRUE)

\* Mutant of ReadCacheFails: a cache that cannot be read ends the run.
ReadCacheFailsFatal(p) ==
  /\ pc[p] = "readCache"
  /\ audit' = [audit EXCEPT ![p].readOk = FALSE, ![p].reads = @ + 1]
  /\ response' = [response EXCEPT ![p] = ErrorResponse("cache unreadable")]
  /\ pc' = [pc EXCEPT ![p] = "done"]
  /\ UNCHANGED <<apiKey, reviewsFile, cacheFile, now, analyzeAll, reviews, cache,
                 reviewsToAnalyze, analyzedCount, position>>
  /\ UNCHANGED scorerVars
  /\ got' = NoResponse

\* The read or the parse throws (no file yet, an I/O error, a file that does
\* not parse): the inner catch keeps cache = {}.
ReadCacheFails(p) ==
  /\ pc[p] = "readCache"
  /\ afterCacheRead(p, EmptyCache, FALSE)

\* One iteration of the for loop: what it stores for a review, given what the
\* model call came to.  stored is FALSE when the catch block wrote the entry.
analyzeReview(review, outcome, time) ==
  IF outcome.kind # "ok"
  THEN [stored |-> FALSE, entry |-> catchEntry(review, time)]
  ELSE LET content == IF outcome.content = <<>>
                      THEN << Obj(EmptyObject) >>       \* content || '{}'
                      ELSE outcome.content
           parsed  == parseContent(review, content)
           \* parsedResult.sentimentScores of null throws a TypeError
           threw   == parsed.threw \/ parsed.parsedResult = Null
       IN  IF threw
           THEN [stored |-> FALSE, entry |-> catchEntry(review, time)]
           ELSE [stored |-> TRUE,
                 entry  |-> storedEntry(review, parsed.parsedResult, time)]

\* Mutant of afterIteration: a failed review ends the loop.
afterIterationBreak(p, stored, count) ==
  IF ~stored THEN "write"
  ELSE IF count < Len(reviewsToAnalyze[p]) THEN "delay"
  ELSE IF position[p] + 1 <= Len(reviewsToAnalyze[p]) THEN "fetch"
  ELSE "write"

\* After an iteration: the throttle delay is awaited only on the success path
\* and only while analyzedCount < reviewsToAnalyze.length.
afterIteration(p, stored, count) ==
  IF stored /\ count < Len(reviewsToAnalyze[p]) THEN "delay"
  ELSE IF position[p] + 1 <= Len(reviewsToAnalyze[p]) THEN "fetch"
  ELSE "write"

AnalyzeReview(p) ==
  /\ pc[p] = "fetch"
  /\ \E outcome \in Outcomes :
       LET review == reviewsToAnalyze[p][position[p]]
           done   == analyzeReview(review, outcome, now)
           count  == IF done.stored THEN analyzedCount[p] + 1 ELSE analyzedCount[p]
       IN  /\ cache' = [cache EXCEPT ![p] = Put(@, review.id, done.entry)]
           /\ analyzedCount' = [analyzedCount EXCEPT ![p] = count]
           /\ position' = [position EXCEPT ![p] = @ + 1]
           /\ pc' = [pc EXCEPT ![p] = afterIteration(p, done.stored, count)]
           /\ audit' = [audit EXCEPT
                          ![p].failures = IF done.stored THEN @ ELSE @ + 1,
                          ![p].lastCall = [id |-> review.id, kind |-> outcome.kind,
                                           content |-> outcome.content]]
  /\ UNCHANGED <<apiKey, reviewsFile, cacheFile, now, analyzeAll, reviews,
                 reviewsToAnalyze, response>>
  /\ UNCHANGED scorerVars
  /\ got' = NoResponse

\* await new Promise(resolve => setTimeout(resolve, delay)) resolves.
Delay(p) ==
  /\ pc[p] = "delay"
  /\ pc' = [pc EXCEPT ![p] =
              IF position[p] <= Len(reviewsToAnalyze[p]) THEN "fetch" ELSE "write"]
  /\ UNCHANGED <<apiKey, reviewsFile, cacheFile, now, analyzeAll, reviews, cache,
                 reviewsToAnalyze, analyzedCount, position, response, audit>>
  /\ UNCHANGED scorerVars
  /\ got' = NoResponse

idsOf(rs) == {rs[i].id : i \in 1..Len(rs)}

\* Mutant of WriteCache: only the entries of this run are written.
WriteNewEntries(p) ==
  /\ pc[p] = "write"
  /\ cacheFile' = CacheOf(SelectSeq(cache[p],
                         LAMBDA entry : entry.reviewId \in idsOf(reviewsToAnalyze[p])))
  /\ response' = [response EXCEPT ![p] = SuccessResponse(p)]
  /\ pc' = [pc EXCEPT ![p] = "done"]
  /\ audit' = [audit EXCEPT ![p].writes = @ + 1]
  /\ UNCHANGED <<apiKey, reviewsFile, now, analyzeAll, reviews, cache,
                 reviewsToAnalyze, analyzedCount, position>>
  /\ UNCHANGED scorerVars
  /\ got' = NoResponse

\* await fs.writeFile(cachePath, JSON.stringify(cache)) succeeds; the handler
\* answers with the count and the cache.
WriteCache(p) ==
  /\ pc[p] = "write"
  /\ cacheFile' = CacheOf(cache[p])
  /\ response' = [response EXCEPT ![p] = SuccessResponse(p)]
  /\ pc' = [pc EXCEPT ![p] = "done"]
  /\ audit' = [audit EXCEPT ![p].writes = @ + 1]
  /\ UNCHANGED <<apiKey, reviewsFile, now, analyzeAll, reviews, cache,
                 reviewsToAnalyze, analyzedCount, position>>
  /\ UNCHANGED scorerVars
  /\ got' = NoResponse

\* fs.writeFile rejects.  It opens the file with flag 'w', which truncates it,
\* and then writes: a failure to open leaves the file as it was, a failure
\* while writing leaves a truncated file.  The outer catch answers 500.
WriteCacheFails(p) ==
  /\ pc[p] = "write"
  /\ \E left \in {cacheFile, CorruptFile} : cacheFile' = left
  /\ response' = [response EXCEPT ![p] = ErrorResponse("write failed")]
  /\ pc' = [pc EXCEPT ![p] = "done"]
  /\ audit' = [audit EXCEPT ![p].writes = @ + 1, ![p].writeFailed = TRUE]
  /\ UNCHANGED <<apiKey, reviewsFile, now, analyzeAll, reviews, cache,
                 reviewsToAnalyze, analyzedCount, position>>
  /\ UNCHANGED scorerVars
  /\ got' = NoResponse

\* The locals of an invocation that has ended are gone.
forget(p) ==
  /\ pc' = [pc EXCEPT ![p] = "idle"]
  /\ analyzeAll' = [analyzeAll EXCEPT ![p] = FALSE]
  /\ reviews' = [reviews EXCEPT ![p] = <<>>]
  /\ cache' = [cache EXCEPT ![p] = EmptyCache]
  /\ reviewsToAnalyze' = [reviewsToAnalyze EXCEPT ![p] = <<>>]
  /\ analyzedCount' = [analyzedCount EXCEPT ![p] = 0]
  /\ position' = [position EXCEPT ![p] = 0]
  /\ response' = [response EXCEPT ![p] = NoResponse]
  /\ audit' = [audit EXCEPT ![p] = NoAudit]

\* The response has been sent.
Return(p) ==
  /\ pc[p] = "done"
  /\ forget(p)
  /\ UNCHANGED <<apiKey, reviewsFile, cacheFile, now>>
  /\ UNCHANGED scorerVars
  /\ got' = NoResponse

\* The server process is killed while the handler waits before its write.
Kill(p) ==
  /\ pc[p] \in {"readReviews", "readCache", "fetch", "delay"}
  /\ forget(p)
  /\ UNCHANGED <<apiKey, reviewsFile, cacheFile, now>>
  /\ UNCHANGED scorerVars
  /\ got' = NoResponse

\* The scraper replaces data/reviews.json.  An invocation reads the file once,
\* as its first step, so a replacement while one is in flight is the same as
\* one before or after it: the scraper is run between invocations.
ScrapeReviews ==
  /\ \A q \in Procs : pc[q] = "idle"
  /\ \E corpus \in Corpora \ {reviewsFile} : reviewsFile' = corpus
  /\ UNCHANGED <<apiKey, cacheFile, now, pc, analyzeAll, reviews, cache,
                 reviewsToAnalyze, analyzedCount, position, response, audit>>
  /\ UNCHANGED scorerVars
  /\ got' = NoResponse

\* The server is restarted with AI_SECRET_KEY set or unset in its environment
\* (process.env is read by each invocation, line 115).
Redeploy ==
  /\ \A q \in Procs : pc[q] = "idle"
  /\ apiKey' = ~apiKey
  /\ UNCHANGED <<reviewsFile, cacheFile, now, pc, analyzeAll, reviews, cache,
                 reviewsToAnalyze, analyzedCount, position, response, audit>>
  /\ UNCHANGED scorerVars
  /\ got' = NoResponse

\* GET: no cache file gives data null; otherwise the file is read and parsed
\* and its aggregate returned with it; a file that does not parse gives 500.
Get ==
  /\ got' = CASE cacheFile.kind = "missing" ->
                  [status |-> 200, success |-> TRUE, data |-> Null,
                   message |-> "No analysis cache found"]
             [] cacheFile.kind = "corrupt" ->
                  [status |-> 500, error |-> "Failed to read analysis",
                   details |-> "Unexpected end of JSON input"]
             [] cacheFile.kind = "cache" ->
                  [status |-> 200, success |-> TRUE,
                   data |-> [aggregated |-> aggregateAnalytics(cacheFile.data),
                             cache      |-> cacheFile.data]]
  /\ UNCHANGED <<scorerVars, analyzerVars>>

-----------------------------------------------------------------------------
(* Specifications                                                          *)

Serialized == \A q \in Procs : pc[q] = "idle"

AnalyzerIdle ==
  /\ now = 0
  /\ pc = [p \in Procs |-> "idle"]
  /\ analyzeAll = [p \in Procs |-> FALSE]
  /\ reviews = [p \in Procs |-> <<>>]
  /\ cache = [p \in Procs |-> EmptyCache]
  /\ reviewsToAnalyze = [p \in Procs |-> <<>>]
  /\ analyzedCount = [p \in Procs |-> 0]
  /\ position = [p \in Procs |-> 0]
  /\ response = [p \in Procs |-> NoResponse]
  /\ audit = [p \in Procs |-> NoAudit]
  /\ got = NoResponse

\* The scorer: the configuration is read once at module load; the forecast
\* provider delivers the midday sample of the day.
ScorerInit ==
  /\ env \in Envs
  /\ sample \in Samples
  /\ forecast = NoForecast
  /\ apiKey = TRUE
  /\ reviewsFile = <<>>
  /\ cacheFile = NoFile
  /\ AnalyzerIdle

ScorerNext == ScoreSample

ScorerSpec == ScorerInit /\ [][ScorerNext]_vars

\* The analyzer, its runs serialized by the caller: a request is sent only
\* when no other invocation is in flight.
SendRequest(p) == Serialized /\ StartRun(p)

\* The analyzer with requests that are not serialized: a request may arrive
\* while another invocation is in flight.  The corpus is one review (so no
\* delay is awaited), and the reads of the corpus and the write of the cache
\* succeed.
OverlapInit ==
  /\ env = DefaultEnv
  /\ sample = ExampleSample
  /\ forecast = NoForecast
  /\ apiKey = TRUE
  /\ reviewsFile = << Review("r1") >>
  /\ cacheFile = NoFile
  /\ AnalyzerIdle

OverlapNext ==
  \E p \in Procs :
    \/ StartRun(p)
    \/ ReadReviews(p)
    \/ ReadCache(p)
    \/ ReadCacheFails(p)
    \/ AnalyzeReview(p)
    \/ WriteCache(p)
    \/ Return(p)

OverlapSpec == OverlapInit /\ [][OverlapNext]_vars

Init ==
  /\ env = DefaultEnv
  /\ sample = ExampleSample
  /\ forecast = NoForecast
  /\ apiKey \in BOOLEAN
  /\ reviewsFile \in Corpora
  /\ cacheFile = NoFile
  /\ AnalyzerIdle

Next ==
  \/ ScrapeReviews
  \/ Redeploy
  \/ Get
  \/ \E p \in Procs :
       \/ SendRequest(p)
       \/ ReadReviews(p)
       \/ ReadReviewsFails(p)
       \/ ReadCache(p)
       \/ ReadCacheFails(p)
       \/ AnalyzeReview(p)
       \/ Delay(p)
       \/ WriteCache(p)
       \/ WriteCacheFails(p)
       \/ Return(p)
       \/ Kill(p)

Spec == Init /\ [][Next]_vars

-----------------------------------------------------------------------------
(* Properties of the takeoff scorer (checked under ScorerSpec)             *)

Scored == forecast # NoForecast

CloudBaseTooLow ==
  calculateCloudBase(sample.temperature, sample.dewpoint)
    < BREITENBERG_ELEVATION + env.MIN_CLOUD_BASE_MARGIN

WindTooStrong == sample.windSpeed > env.MAX_WIND_SPEED_KMH

RainTooHeavy == sample.precipitation > env.MAX_PRECIPITATION_MM * 100

DirectionDangerous ==
  /\ sample.windSpeed > env.MIN_WIND_SPEED_FOR_DIRECTION_CHECK
  /\ isWindDirectionDangerous(sample.windDirection)

\* The kinds of the hard limits the sample violates.
ViolatedKinds ==
  (IF CloudBaseTooLow THEN {"Cloud base"} ELSE {})
  \cup (IF WindTooStrong THEN {"Wind too strong"} ELSE {})
  \cup (IF RainTooHeavy THEN {"Heavy rain"} ELSE {})
  \cup (IF DirectionDangerous THEN {"Dangerous wind direction"} ELSE {})

\* C1: a sample that violates at least one hard limit is scored 0 (percentage
\* and breakdown.total), and safetyViolations holds exactly one message per
\* violated limit, whatever the other categories are.
C1_ViolationZeroesScore ==
  (Scored /\ ViolatedKinds # {}) =>
     LET messages == forecast.breakdown.safetyViolations
     IN  /\ forecast.percentage = 0
         /\ forecast.breakdown.total = 0
         /\ Len(messages) = Cardinality(ViolatedKinds)
         /\ {messages[i].kind : i \in 1..Len(messages)} = ViolatedKinds

\* Two limits violated at once while wind and cloud cover are at their best.
C1_Witness ==
  /\ Scored
  /\ Cardinality(ViolatedKinds) = 2
  /\ CloudBaseTooLow /\ RainTooHeavy
  /\ getWindDirectionScore(sample.windDirection) = 100
  /\ getWindSpeedScore(sample.windSpeed) = 100
  /\ sample.cloudCover = 0

Categories == {"windDirection", "windSpeed", "precipitation", "cloudCover"}

\* score x weight / 100 of a reported category, in 1/10000 of a point.
Contribution(category) ==
  forecast.breakdown[category].score * forecast.breakdown[category].weight

PointsAsReported ==
  \A c \in Categories :
     forecast.breakdown[c].points = Round(Contribution(c), 1000)

SumOfReportedPoints ==
  forecast.breakdown.windDirection.points + forecast.breakdown.windSpeed.points
    + forecast.breakdown.precipitation.points + forecast.breakdown.cloudCover.points

SumOfContributions ==
  Contribution("windDirection") + Contribution("windSpeed")
    + Contribution("precipitation") + Contribution("cloudCover")

\* C7 as stated: without a violation, each category's points are
\* round(score x weight / 100 x 10) / 10 and the total is the rounded sum of
\* the four reported points.
C7_TotalOfReportedPoints ==
  (Scored /\ ViolatedKinds = {}) =>
     /\ PointsAsReported
     /\ forecast.percentage = Round(SumOfReportedPoints, 10)
     /\ forecast.breakdown.total = Round(SumOfReportedPoints, 10)

\* C7 as amended: the total is the rounded sum of the four unrounded
\* contributions score x weight / 100; it is the rounded sum of the reported
\* points whenever every contribution has at most one decimal.
C7_TotalOfContributions ==
  (Scored /\ ViolatedKinds = {}) =>
     /\ PointsAsReported
     /\ forecast.percentage = Round(SumOfContributions, 10000)
     /\ forecast.breakdown.total = Round(SumOfContributions, 10000)
     /\ (\A c \in Categories : Contribution(c) % 1000 = 0)
           => forecast.percentage = Round(SumOfReportedPoints, 10)

\* 0.13 mm of rain: the precipitation contribution is 19.48, reported 19.5,
\* and the total 96 is not the rounded sum 96.5 of the reported points.
C7_Witness ==
  /\ Scored
  /\ ViolatedKinds = {}
  /\ sample.precipitation = 13
  /\ Contribution("precipitation") = 194800
  /\ forecast.breakdown.precipitation.points = 195
  /\ forecast.percentage = 96
  /\ SumOfReportedPoints = 965

-----------------------------------------------------------------------------
(* Properties of the review analyzer (checked under Spec)                  *)

Done(p)      == pc[p] = "done"
Succeeded(p) == Done(p) /\ response[p].status = 200

\* The entry of a failed call: overall = rating x 20, the rest neutral.
NoTopicsNoLists(entry) ==
  /\ entry.topicsMentioned = [t \in Topics |-> FALSE]
  /\ entry.positiveHighlights = <<>>
  /\ entry.concerns = <<>>
  /\ entry.hiddenCosts = <<>>
  /\ entry.suggestions = <<>>
  /\ entry.keyWords = <<>>
  /\ entry.pilots = <<>>

DegradedFor(id, entry) ==
  /\ entry.reviewId = id
  /\ entry.sentimentScores =
       [ overallExperience     |-> starRatingOf(id) * 20,
         safetyProfessionalism |-> 50,
         valueForMoney         |-> 50,
         staffServiceQuality   |-> 50 ]
  /\ NoTopicsNoLists(entry)

\* C2: after a run with analyzeAll = false, every entry of the cache as read
\* is still there unchanged and no model call was made for it, and every
\* review of the corpus that was not in that cache has an entry.
C2_OnlyUncachedAnalyzed ==
  \A p \in Procs :
    (Succeeded(p) /\ ~analyzeAll[p]) =>
       LET before == audit[p].cacheAsRead
           todo   == reviewsToAnalyze[p]
       IN  /\ \A id \in Keys(before) :
                /\ id \in Keys(cache[p]) /\ Lookup(cache[p], id) = Lookup(before, id)
                /\ id \in Keys(cacheFile.data) /\ Lookup(cacheFile.data, id) = Lookup(before, id)
                /\ id \notin idsOf(todo)
           /\ \A id \in idsOf(reviews[p]) \ Keys(before) :
                id \in Keys(cache[p]) /\ id \in Keys(cacheFile.data)

\* A run that finds one review of the corpus cached and another not.
C2_Witness ==
  \E p \in Procs :
    /\ Succeeded(p) /\ ~analyzeAll[p]
    /\ idsOf(reviews[p]) \cap Keys(audit[p].cacheAsRead) # {}
    /\ idsOf(reviews[p]) \ Keys(audit[p].cacheAsRead) # {}

\* C3: a failure on one review does not end the loop: the write is reached
\* only when every review of the work set has been processed, every
\* processed review has an entry, and after the run the persisted cache has
\* an entry for every review of the work set.
C3_FailureDoesNotAbort ==
  \A p \in Procs :
    LET todo == reviewsToAnalyze[p]
    IN  /\ pc[p] \in {"fetch", "delay", "write", "done"} =>
             \A i \in 1..Len(todo) : i < position[p] => todo[i].id \in Keys(cache[p])
        /\ (pc[p] = "write" \/ (Done(p) /\ audit[p].writes = 1)) =>
             position[p] = Len(todo) + 1
        /\ (Done(p) /\ audit[p].writes = 0) => audit[p].failures = 0
        /\ Succeeded(p) => idsOf(todo) \subseteq Keys(cacheFile.data)

\* The first of two reviews failed and the second was analyzed.
C3_Witness ==
  \E p \in Procs :
    /\ Succeeded(p)
    /\ Len(reviewsToAnalyze[p]) = 2
    /\ audit[p].failures = 1
    /\ DegradedFor(reviewsToAnalyze[p][1].id, Lookup(cacheFile.data, reviewsToAnalyze[p][1].id))
    /\ Lookup(cacheFile.data, reviewsToAnalyze[p][2].id).pilots # <<>>

\* C4 as stated: an id of the persisted cache stays in it, and its entry is
\* replaced only by a run with analyzeAll = true whose corpus holds the id.
\* (Steps to or from a file that does not parse are left out: the statement
\* is about two successive persisted caches.)
C4_NeverSilentlyDropped ==
  [][ (cacheFile.kind = "cache" /\ cacheFile'.kind = "cache") =>
        \A id \in Keys(cacheFile.data) :
          /\ id \in Keys(cacheFile'.data)
          /\ Lookup(cacheFile'.data, id) # Lookup(cacheFile.data, id) =>
               \E p \in Procs : /\ pc[p] = "write"
                                /\ analyzeAll[p]
                                /\ id \in idsOf(reviews[p]) ]_vars

\* C5: a run reads the cache file once, before the loop, and writes it at
\* most once, after the last review of the work set; the write carries the
\* whole in-memory cache (the entries read plus those of this run); nothing
\* else changes the file, and a run killed before its write leaves the file
\* as it was when the run started.
C5_ReadOnceWriteOnce ==
  [][ \A p \in Procs :
        LET writes == audit'[p].writes > audit[p].writes
            killed == pc[p] \in {"readReviews", "readCache", "fetch", "delay"}
                        /\ pc'[p] = "idle"
        IN  /\ audit'[p].reads <= 1
            /\ audit'[p].writes <= 1
            /\ pc'[p] \in {"fetch", "delay", "write"} => audit'[p].reads = 1
            /\ writes => /\ pc[p] = "write"
                         /\ position[p] = Len(reviewsToAnalyze[p]) + 1
            /\ (writes /\ response'[p].status = 200) =>
                 /\ cacheFile' = CacheOf(cache[p])
                 /\ Keys(cacheFile'.data) =
                      Keys(audit[p].cacheAsRead) \cup idsOf(reviewsToAnalyze[p])
            /\ killed => cacheFile' = audit[p].cacheFileAtStart
            /\ cacheFile' # cacheFile =>
                 \E q \in Procs : audit'[q].writes > audit[q].writes ]_vars

\* A completed run whose write carried entries read from the file and
\* entries of its own.
C5_Witness ==
  \E p \in Procs :
    /\ Succeeded(p)
    /\ audit[p].reads = 1 /\ audit[p].writes = 1
    /\ audit[p].cacheAsRead # EmptyCache
    /\ Keys(audit[p].cacheAsRead) \ idsOf(reviewsToAnalyze[p]) # {}
    /\ reviewsToAnalyze[p] # <<>>
    /\ cacheFile = CacheOf(cache[p])

\* C6 as stated, for a run that found a cache on file: when the final write
\* fails the run answers with an error (no success flag, no count, no cache)
\* and the cache file is what it was before the run.
C6_FailedWriteKeepsFile ==
  \A p \in Procs :
    (Done(p) /\ audit[p].writeFailed /\ audit[p].cacheFileAtStart.kind = "cache") =>
       /\ response[p].status = 500
       /\ DOMAIN response[p] \cap {"success", "analyzedCount", "aggregated", "cache"} = {}
       /\ cacheFile = audit[p].cacheFileAtStart

\* C8: after a run with analyzeAll = true every review of the corpus has an
\* entry written by this run, replacing the one read, and the entries read
\* for ids outside the corpus are kept.
C8_AnalyzeAllRewrites ==
  \A p \in Procs :
    (Succeeded(p) /\ analyzeAll[p]) =>
       LET before == audit[p].cacheAsRead
       IN  /\ \A id \in idsOf(reviews[p]) :
                /\ id \in Keys(cacheFile.data)
                /\ Lookup(cacheFile.data, id).analyzedAt = now
                /\ id \in Keys(before) => Lookup(before, id).analyzedAt < now
           /\ \A id \in Keys(before) \ idsOf(reviews[p]) :
                id \in Keys(cacheFile.data) /\ Lookup(cacheFile.data, id) = Lookup(before, id)

\* A run that replaces one entry it read and keeps another whose review has
\* left the corpus.
C8_Witness ==
  \E p \in Procs :
    /\ Succeeded(p) /\ analyzeAll[p]
    /\ Keys(audit[p].cacheAsRead) \cap idsOf(reviews[p]) # {}
    /\ Keys(audit[p].cacheAsRead) \ idsOf(reviews[p]) # {}

\* C9: a review whose model call fails (network error, timeout, non-success
\* status) gets the degraded entry.
C9_FailedCallEntry ==
  \A p \in Procs :
    LET call == audit[p].lastCall
    IN  call.kind \in {"network error", "timeout", "status not ok"} =>
          /\ call.id \in Keys(cache[p])
          /\ DegradedFor(call.id, Lookup(cache[p], call.id))

\* A run whose last call timed out has persisted the degraded entry.
C9_Witness ==
  \E p \in Procs :
    /\ Succeeded(p)
    /\ audit[p].lastCall.kind = "timeout"
    /\ DegradedFor(audit[p].lastCall.id, Lookup(cacheFile.data, audit[p].lastCall.id))

\* The text is not valid JSON and holds no JSON object between braces.
Unparseable(content) ==
  /\ ~isJSON(content)
  /\ \A i \in 1..Len(content) : content[i].t # "object"

\* C10 as stated: unparseable text gives the same degraded entry as a failed
\* call.
C10_UnparseableIsDegraded ==
  \A p \in Procs :
    LET call == audit[p].lastCall
    IN  (call.kind = "ok" /\ Unparseable(call.content)) =>
          /\ call.id \in Keys(cache[p])
          /\ DegradedFor(call.id, Lookup(cache[p], call.id))

\* C10 as amended: unparseable text never ends the run, and the entry is
\*   - for empty text (read as '{}'): no sentiment scores, no topics, empty lists;
\*   - for text without a "{" followed by a "}": all four metrics rating x 20;
\*   - for text with such a span that does not parse: the degraded entry.
C10_UnparseableEntry ==
  \A p \in Procs :
    LET call  == audit[p].lastCall
        entry == Lookup(cache[p], call.id)
    IN  (call.kind = "ok" /\ Unparseable(call.content)) =>
          /\ call.id \in Keys(cache[p])
          /\ Done(p) => audit[p].writes = 1
          /\ IF call.content = <<>>
             THEN /\ entry.sentimentScores = EmptyObject
                  /\ entry.topicsMentioned = EmptyObject
                  /\ entry.positiveHighlights = <<>> /\ entry.concerns = <<>>
                  /\ entry.hiddenCosts = <<>> /\ entry.suggestions = <<>>
                  /\ entry.keyWords = <<>> /\ entry.pilots = <<>>
             ELSE IF \/ \A i \in 1..Len(call.content) : call.content[i].t # "{"
                     \/ \A i \in 1..Len(call.content) : call.content[i].t # "}"
                     \/ \A i, j \in 1..Len(call.content) :
                          (call.content[i].t = "{" /\ call.content[j].t = "}") => j < i
             THEN /\ entry.sentimentScores =
                       [m \in Metrics |-> starRatingOf(call.id) * 20]
                  /\ NoTopicsNoLists(entry)
             ELSE DegradedFor(call.id, entry)

\* Prose without braces: all four metrics come from the star rating.
C10_Witness ==
  \E p \in Procs :
    /\ Succeeded(p)
    /\ audit[p].lastCall.kind = "ok"
    /\ audit[p].lastCall.content = << Prose >>
    /\ Lookup(cacheFile.data, audit[p].lastCall.id).sentimentScores =
         [m \in Metrics |-> starRatingOf(audit[p].lastCall.id) * 20]

\* C11: without AI_SECRET_KEY a run that got past its reads has ended with
\* an error response; it issued no model call, left its in-memory cache as
\* read, did not write the cache file, and the file is what it was when the
\* run started, whatever the corpus, the cache and analyzeAll are.
C11_MissingKeyFailsBeforeWork ==
  \A p \in Procs :
    (~apiKey /\ audit[p].reads = 1) =>
       /\ Done(p)
       /\ response[p].status = 500
       /\ DOMAIN response[p] \cap {"success", "analyzedCount", "aggregated", "cache"} = {}
       /\ audit[p].lastCall.kind = "none"
       /\ audit[p].failures = 0
       /\ analyzedCount[p] = 0
       /\ cache[p] = audit[p].cacheAsRead
       /\ audit[p].writes = 0
       /\ cacheFile = audit[p].cacheFileAtStart

\* A run without the key that had a corpus to work on, a cache on file and
\* analyzeAll set.
C11_Witness ==
  \E p \in Procs :
    /\ ~apiKey
    /\ Done(p)
    /\ audit[p].reads = 1
    /\ analyzeAll[p]
    /\ reviews[p] # <<>>
    /\ reviewsToAnalyze[p] # <<>>
    /\ audit[p].cacheAsRead # EmptyCache

\* C12: a run whose cache read failed goes on with an empty cache: its work
\* set is the whole corpus, it ends in error only if its final write fails,
\* and when it completes the persisted cache holds an entry for exactly the
\* ids of the corpus.
C12_UnreadableCacheIsEmpty ==
  \A p \in Procs :
    (apiKey /\ audit[p].reads = 1 /\ ~audit[p].readOk) =>
       /\ audit[p].cacheAsRead = EmptyCache
       /\ reviewsToAnalyze[p] = reviews[p]
       /\ Done(p) => (response[p].status = 200 \/ audit[p].writeFailed)
       /\ Succeeded(p) =>
            /\ cacheFile = CacheOf(cache[p])
            /\ Keys(cacheFile.data) = idsOf(reviews[p])
            /\ Len(cacheFile.data) = Len(reviews[p])

\* A first run (no cache file yet) over a corpus of two reviews, completed.
C12_Witness ==
  \E p \in Procs :
    /\ Succeeded(p)
    /\ audit[p].reads = 1 /\ ~audit[p].readOk
    /\ audit[p].cacheFileAtStart = NoFile
    /\ Len(reviews[p]) = 2
    /\ Keys(cacheFile.data) = idsOf(reviews[p])

-----------------------------------------------------------------------------
(* Properties of the wind-direction scoring (checked under ScorerSpec)     *)

\* The ranges of the configured table that hold a direction.
RangesHolding(windDirection) ==
  {i \in 1..Len(env.WIND_DIRECTION_RANGES) :
     rangeMatches(env.WIND_DIRECTION_RANGES[i], windDirection)}

\* C13 as stated: under the default table every direction in [0, 360) lies
\* in exactly one range and is given that range's score; a direction that
\* lies in no range of the table is given the fallback 50.
C13_ExactlyOneRange ==
  Scored =>
    LET d    == sample.windDirection
        hits == RangesHolding(d)
    IN  /\ (env = DefaultEnv /\ d < 360) =>
             /\ Cardinality(hits) = 1
             /\ \A i \in hits :
                  getWindDirectionScore(d) = env.WIND_DIRECTION_RANGES[i].score
        /\ hits = {} => getWindDirectionScore(d) = 50

\* C14: under the table whose first range is {start: 315, end: 45, score: 100}
\* a direction d with d >= 315 or d <= 45 lies in that range and is given its
\* score; a direction with 45 < d < 315 does not lie in it and is given
\* another score.
C14_WrappingRange ==
  (Scored /\ env = WrapEnv) =>
    LET d == sample.windDirection
    IN  IF d >= 315 \/ d <= 45
        THEN /\ 1 \in RangesHolding(d)
             /\ getWindDirectionScore(d) = 100
             /\ Len(forecast.breakdown.safetyViolations) = 0 =>
                  forecast.breakdown.windDirection.score = 100 * 100
        ELSE /\ 1 \notin RangesHolding(d)
             /\ getWindDirectionScore(d) # 100

\* 340 degrees scored under the wrapping table, with no limit violated.
C14_Witness ==
  /\ Scored
  /\ env = WrapEnv
  /\ sample.windDirection = 340
  /\ Len(forecast.breakdown.safetyViolations) = 0
  /\ forecast.breakdown.windDirection.score = 100 * 100

\* The kinds of the violations the forecast reports.
ReportedKinds ==
  {forecast.breakdown.safetyViolations[i].kind :
     i \in 1..Len(forecast.breakdown.safetyViolations)}

\* C15 as stated: the dangerous-direction violation is reported exactly when
\* the wind speed exceeds the check threshold and the direction's score is
\* strictly below the dangerous-direction threshold; a score equal to the
\* threshold (the fallback 50 under the threshold 50) does not disqualify.
C15_DangerousBelowThreshold ==
  Scored =>
    ("Dangerous wind direction" \in ReportedKinds
       <=> /\ sample.windSpeed > env.MIN_WIND_SPEED_FOR_DIRECTION_CHECK
           /\ getWindDirectionScore(sample.windDirection)
                < env.DANGEROUS_WIND_DIRECTION_THRESHOLD)

-----------------------------------------------------------------------------
(* Properties of the total (checked under ScorerSpec)                      *)

NoViolation == Len(forecast.breakdown.safetyViolations) = 0

\* Every scored category has the score 100 (in hundredths).
EveryCategoryAtMaximum ==
  \A c \in Categories : forecast.breakdown[c].score = 100 * 100

\* C16 as stated: under the default configuration the total is an integer in
\* 0..100, and it is 100 only when each of the four categories scores 100.
C16_HundredOnlyAtMaximum ==
  (Scored /\ env = DefaultEnv) =>
     /\ forecast.percentage \in 0..100
     /\ forecast.breakdown.total = forecast.percentage
     /\ forecast.percentage = 100 => EveryCategoryAtMaximum

\* C16 amended: under the default configuration the total is an integer in
\* 0..100; it is 100 exactly when no limit is violated and the unrounded sum
\* of the four contributions is at least 99.5, which holds when every
\* category scores 100 and also when the categories lose at most half a
\* point together.
C16_HundredFromNinetyNineAndAHalf ==
  (Scored /\ env = DefaultEnv) =>
     /\ forecast.percentage \in 0..100
     /\ forecast.breakdown.total = forecast.percentage
     /\ forecast.percentage = 100 <=> (NoViolation /\ SumOfContributions >= 995000)
     /\ (NoViolation /\ EveryCategoryAtMaximum) => forecast.percentage = 100

\* A total of 100 for a sample with 3% cloud cover (cloud score 97).
C16_Witness ==
  /\ Scored
  /\ env = DefaultEnv
  /\ forecast.percentage = 100
  /\ sample.cloudCover = 3
  /\ forecast.breakdown.cloudCover.score = 97 * 100

\* The input a category of the breakdown reports as its value.
InputOf(category) ==
  CASE category = "windDirection" -> sample.windDirection
    [] category = "windSpeed"     -> sample.windSpeed
    [] category = "precipitation" -> sample.precipitation
    [] category = "cloudCover"    -> sample.cloudCover

\* The configured weight of a category.
WeightOf(category) ==
  CASE category = "windDirection" -> env.WEIGHT_WIND_DIRECTION
    [] category = "windSpeed"     -> env.WEIGHT_WIND_SPEED
    [] category = "precipitation" -> env.WEIGHT_PRECIPITATION
    [] category = "cloudCover"    -> env.WEIGHT_CLOUD_COVER

\* C17: when a hard limit is violated, the breakdown has score 0 and points
\* 0 for each of the four categories and total 0, while value and weight of
\* each category and the cloud-base record report the inputs, and the list
\* of violations is returned.
C17_ShortCircuitBreakdown ==
  (Scored /\ ViolatedKinds # {}) =>
     LET cloudBase == calculateCloudBase(sample.temperature, sample.dewpoint)
         required  == BREITENBERG_ELEVATION + env.MIN_CLOUD_BASE_MARGIN
     IN  /\ forecast.percentage = 0
         /\ forecast.breakdown.total = 0
         /\ \A c \in Categories :
              /\ forecast.breakdown[c].score = 0
              /\ forecast.breakdown[c].points = 0
              /\ forecast.breakdown[c].value = InputOf(c)
              /\ forecast.breakdown[c].weight = WeightOf(c)
         /\ forecast.breakdown.cloudBase =
              [value |-> cloudBase, minRequired |-> required,
               isSafe |-> cloudBase >= required]
         /\ ReportedKinds = ViolatedKinds
         /\ forecast.conditions = << "NOT FLYABLE - Safety constraints violated" >>

\* Wind above the maximum alone, under a clear sky from an ideal direction:
\* the categories that would score 100 report 0.
C17_Witness ==
  /\ Scored
  /\ ViolatedKinds = {"Wind too strong"}
  /\ sample.cloudCover = 0
  /\ sample.precipitation = 0
  /\ getWindDirectionScore(sample.windDirection) = 100
  /\ forecast.breakdown.cloudCover.score = 0
  /\ forecast.breakdown.windDirection.score = 0
  /\ forecast.breakdown.cloudBase.isSafe

-----------------------------------------------------------------------------
(* Properties of aggregateAnalytics (checked under Spec, where the success *)
(* response of a run carries the aggregate of the cache it has written)    *)

AnalyticsFields ==
  {"averageSentimentScores", "topicFrequency", "topPositivePhrases", "topConcerns",
   "commonHiddenCosts", "improvementSuggestions", "wordCloud", "pilotStats"}

\* C18: the aggregate of an empty cache is a result, not null, whose four
\* averages and five topic frequencies are 0, whose five lists are empty and
\* whose pilotStats has no key.
C18_EmptyCacheAggregate ==
  \A p \in Procs :
    (Succeeded(p) /\ cache[p] = EmptyCache) =>
       LET aggregated == response[p].aggregated
       IN  /\ aggregated # Null
           /\ DOMAIN aggregated = AnalyticsFields
           /\ \A m \in Metrics : aggregated.averageSentimentScores[m] = 0
           /\ \A t \in Topics : aggregated.topicFrequency[t] = 0
           /\ Len(aggregated.topPositivePhrases) = 0
           /\ Len(aggregated.topConcerns) = 0
           /\ Len(aggregated.commonHiddenCosts) = 0
           /\ Len(aggregated.improvementSuggestions) = 0
           /\ Len(aggregated.wordCloud) = 0
           /\ Len(aggregated.pilotStats) = 0

\* A run over an empty corpus with no cache on file has answered with the
\* aggregate of the empty cache.
C18_Witness ==
  \E p \in Procs :
    /\ Succeeded(p)
    /\ cache[p] = EmptyCache
    /\ reviews[p] = <<>>
    /\ response[p].analyzedReviews = 0
    /\ response[p].aggregated.averageSentimentScores.overallExperience = 0

\* The number of times x occurs in a list.
Occurrences(list, x) == Cardinality({i \in 1..Len(list) : list[i] = x})

\* The pilot mentions of a cache with a given name, in the order of the
\* analyses and, within an analysis, of its pilots list.
MentionsNamed(c, name) ==
  SelectSeq(concat([i \in 1..Len(c) |-> c[i].pilots]), LAMBDA m : m.pilotName = name)

\* The highlight phrases of a list of mentions, in order.
HighlightsOf(mentions) ==
  concat([i \in 1..Len(mentions) |-> OrElse(mentions[i], "positiveHighlights", <<>>)])

\* C19: in the aggregate of a cache, pilotStats has one key per pilot name
\* that is mentioned, names being compared as exact strings; for a name,
\* totalMentions is the number of mentions with that name over all analyses,
\* ratings are their ratings in encounter order, averageRating is the exact
\* mean of the ratings, and topPositiveHighlights gives each highlight phrase
\* of those mentions with the number of its occurrences.
C19_PilotGrouping ==
  \A p \in Procs :
    Succeeded(p) =>
      LET stats == response[p].aggregated.pilotStats
          names == {m.pilotName : m \in
                      {concat([i \in 1..Len(cache[p]) |-> cache[p][i].pilots])[k] :
                         k \in 1..Len(concat([i \in 1..Len(cache[p]) |-> cache[p][i].pilots]))}}
      IN  /\ {stats[i].name : i \in 1..Len(stats)} = names
          /\ Len(stats) = Cardinality(names)
          /\ \A i \in 1..Len(stats) :
               LET mine       == MentionsNamed(cache[p], stats[i].name)
                   highlights == HighlightsOf(mine)
                   listed     == stats[i].topPositiveHighlights
               IN  /\ stats[i].totalMentions = Len(mine)
                   /\ stats[i].ratings = [k \in 1..Len(mine) |-> mine[k].rating]
                   /\ stats[i].averageRating.sum = sum([k \in 1..Len(mine) |-> mine[k].rating])
                   /\ stats[i].averageRating.length = Len(mine)
                   /\ {listed[k].phrase : k \in 1..Len(listed)}
                        = {highlights[k] : k \in 1..Len(highlights)}
                   /\ \A k \in 1..Len(listed) :
                        /\ listed[k].count = Occurrences(highlights, listed[k].phrase)
                        /\ \A j \in 1..Len(listed) : listed[j].phrase = listed[k].phrase => j = k

\* The example: "Max" rated 5 in one review and 3 in the next, both with the
\* highlight "very professional", and "Max K." kept apart.
C19_Witness ==
  \E p \in Procs :
    /\ Succeeded(p)
    /\ \E i, j \in 1..Len(response[p].aggregated.pilotStats) :
         LET max  == response[p].aggregated.pilotStats[i]
             maxK == response[p].aggregated.pilotStats[j]
         IN  /\ max.name = "Max"
             /\ max.totalMentions = 2
             /\ max.ratings = << 5, 3 >>
             /\ max.averageRating = [sum |-> 8, length |-> 2]
             /\ max.topPositiveHighlights = << [phrase |-> "very professional", count |-> 2] >>
             /\ maxK.name = "Max K."
             /\ maxK.totalMentions = 2
             /\ maxK.ratings = << 4, 2 >>

\* The position at which x is first seen in a list.
FirstSeen(list, x) == CHOOSE i \in 1..Len(list) : list[i] = x /\ \A j \in 1..(i - 1) : list[j] # x

\* A ranking (keys with their counts) of the strings of a list: at most five
\* entries, exact counts, descending, nothing left out that has a higher
\* count, and first seen first among equal counts.
RankedByCountThenFirstSeen(keys, counts, list) ==
  /\ Len(keys) <= 5
  /\ \A k \in 1..Len(keys) :
       /\ Occurrences(list, keys[k]) > 0
       /\ counts[k] = Occurrences(list, keys[k])
  /\ \A k, j \in 1..Len(keys) : k < j => counts[k] >= counts[j]
  /\ \A i \in 1..Len(list) :
       (\A k \in 1..Len(keys) : keys[k] # list[i])
         => \A k \in 1..Len(keys) : Occurrences(list, list[i]) <= counts[k]
  /\ \A k, j \in 1..Len(keys) :
       (k < j /\ counts[k] = counts[j]) => FirstSeen(list, keys[k]) < FirstSeen(list, keys[j])

\* C20: topPositivePhrases and topConcerns of an aggregate each hold at most
\* five entries with exact counts, in descending order of count, leave out
\* no phrase with a higher count than one included, and put the phrase seen
\* first before any other of equal count, digit-only phrases included.
C20_TopByCountThenFirstSeen ==
  \A p \in Procs :
    (Succeeded(p) /\ Len(cache[p]) > 0) =>
      LET phrases  == response[p].aggregated.topPositivePhrases
          concerns == response[p].aggregated.topConcerns
      IN  /\ RankedByCountThenFirstSeen([k \in 1..Len(phrases) |-> phrases[k].phrase],
                                        [k \in 1..Len(phrases) |-> phrases[k].count],
                                        collect(cache[p], "positiveHighlights"))
          /\ RankedByCountThenFirstSeen([k \in 1..Len(concerns) |-> concerns[k].concern],
                                        [k \in 1..Len(concerns) |-> concerns[k].count],
                                        collect(cache[p], "concerns"))

\* Whether an analysis has a sentiment metric.
HasMetric(analysis, metric) ==
  /\ "sentimentScores" \in DOMAIN analysis
  /\ metric \in DOMAIN analysis.sentimentScores

\* The sum of a metric over the analyses of a cache, an analysis without the
\* metric contributing 0.
MetricTotal(c, metric) ==
  sum([i \in 1..Len(c) |-> IF HasMetric(c[i], metric) THEN c[i].sentimentScores[metric] ELSE 0])

\* C21: for a non-empty cache each average sentiment score is the nearest
\* integer to S / N (a half rounding up), N being the number of all cached
\* analyses and S the sum of the metric with 0 for an analysis lacking it.
C21_AverageOverAllAnalyses ==
  \A p \in Procs :
    (Succeeded(p) /\ Len(cache[p]) > 0) =>
      \A metric \in Metrics :
        LET average == response[p].aggregated.averageSentimentScores[metric]
            N       == Len(cache[p])
            S       == MetricTotal(cache[p], metric)
        IN  /\ (2 * average - 1) * N <= 2 * S
            /\ 2 * S < (2 * average + 1) * N

\* An aggregate over a cache in which one analysis has a metric and another
\* lacks it, so that the divisor matters.
C21_Witness ==
  \E p \in Procs : \E metric \in Metrics :
    /\ Succeeded(p)
    /\ \E i, j \in 1..Len(cache[p]) :
         /\ ~HasMetric(cache[p][i], metric)
         /\ HasMetric(cache[p][j], metric)
         /\ cache[p][j].sentimentScores[metric] > 0
    /\ response[p].aggregated.averageSentimentScores[metric] * Len(cache[p])
         < MetricTotal(cache[p], metric) + Len(cache[p])
    /\ response[p].aggregated.averageSentimentScores[metric] > 0

\* A list holds the first ten distinct strings of another, in first-seen
\* order, each once.
FirstTenDistinct(out, all) ==
  /\ Len(out) <= 10
  /\ \A k, j \in 1..Len(out) : out[k] = out[j] => k = j
  /\ \A k \in 1..Len(out) : Occurrences(all, out[k]) > 0
  /\ \A k, j \in 1..Len(out) : k < j => FirstSeen(all, out[k]) < FirstSeen(all, out[j])
  /\ \A i \in 1..Len(all) :
       (\A k \in 1..Len(out) : out[k] # all[i])
         => /\ Len(out) = 10
            /\ \A k \in 1..Len(out) : FirstSeen(all, out[k]) < i

\* C22: commonHiddenCosts and improvementSuggestions hold no string twice,
\* have at most ten entries, and are the first ten distinct strings, in
\* first-seen order, of the hidden costs and suggestions of all analyses.
C22_FirstTenDistinct ==
  \A p \in Procs :
    Succeeded(p) =>
      /\ FirstTenDistinct(response[p].aggregated.commonHiddenCosts,
                          collect(cache[p], "hiddenCosts"))
      /\ FirstTenDistinct(response[p].aggregated.improvementSuggestions,
                          collect(cache[p], "suggestions"))

\* An aggregate whose suggestions were cut to ten and whose hidden costs
\* were seen more than once.
C22_Witness ==
  \E p \in Procs :
    /\ Succeeded(p)
    /\ Len(response[p].aggregated.improvementSuggestions) = 10
    /\ Occurrences(collect(cache[p], "suggestions"), "longer flight") > 0
    /\ Occurrences(collect(cache[p], "suggestions"), "offer a shuttle") > 1
    /\ response[p].aggregated.commonHiddenCosts = << "transport", "photos cost extra" >>
    /\ Len(collect(cache[p], "hiddenCosts")) > 3

\* A GET request was answered in the latest step with a cache and its
\* aggregate.
GotAnalysis == got.status = 200 /\ got.data # Null

CallEndedBeforeAnother(p) ==
  /\ position'[p] = position[p] + 1
  /\ position'[p] <= Len(reviewsToAnalyze[p])

\* C24: within a run a delay lies between every two consecutive model calls:
\* when a call has ended, succeeded or failed, and another review is to be
\* sent, the run waits before it sends it.
C24_DelayBetweenCalls ==
  [][\A p \in Procs : CallEndedBeforeAnother(p) => pc'[p] = "delay"]_vars

\* C25: the count a completed run reports is the number of reviews that got
\* a new cache entry in the run, the size of its work set, also when some of
\* them failed and got a degraded entry.
C25_CountIsWorkSetSize ==
  \A p \in Procs :
    Succeeded(p) => response[p].analyzedCount = Len(reviewsToAnalyze[p])

\* The sum of score x configured weight over the four categories, in 1/10000
\* of a point.
SumWithConfiguredWeights ==
  forecast.breakdown.windDirection.score * WeightOf("windDirection")
    + forecast.breakdown.windSpeed.score * WeightOf("windSpeed")
    + forecast.breakdown.precipitation.score * WeightOf("precipitation")
    + forecast.breakdown.cloudCover.score * WeightOf("cloudCover")

\* C26: the weights are used as configured, whatever they sum to: without a
\* violation each category reports the configured weight and the points
\* score x weight / 100, and the total is the rounded sum of these products.
C26_WeightsAsGiven ==
  (Scored /\ NoViolation) =>
     /\ \A c \in Categories :
          /\ forecast.breakdown[c].weight = WeightOf(c)
          /\ forecast.breakdown[c].points
               = Round(forecast.breakdown[c].score * WeightOf(c), 1000)
     /\ forecast.percentage = Round(SumWithConfiguredWeights, 10000)
     /\ forecast.breakdown.total = forecast.percentage

\* Weights 50/30/20/10 and four scores of 100: the total is 110.
C26_Witness ==
  /\ Scored
  /\ NoViolation
  /\ env = HeavyEnv
  /\ EveryCategoryAtMaximum
  /\ forecast.breakdown.windDirection.points = 500
  /\ forecast.percentage = 110

\* elevation + 121.92 x (temperature - dewpoint), in millimetres (temperature
\* and dewpoint being in tenths of a degree).
CloudBaseExact ==
  BREITENBERG_ELEVATION * 1000 + 12192 * (sample.temperature - sample.dewpoint)

\* C27: the cloud base reported is elevation + 121.92 x (temperature -
\* dewpoint) rounded to the nearest metre, and the cloud-base violation is
\* reported exactly when it is below elevation + minimum margin.
C27_CloudBaseFormula ==
  Scored =>
    LET metres == forecast.breakdown.cloudBase.value
    IN  /\ 2000 * metres - 1000 <= 2 * CloudBaseExact
        /\ 2 * CloudBaseExact < 2000 * metres + 1000
        /\ "Cloud base" \in ReportedKinds
             <=> metres < BREITENBERG_ELEVATION + env.MIN_CLOUD_BASE_MARGIN

\* The example: 20 degrees, dewpoint 10, elevation 1690 give 2909 m and no
\* cloud-base violation.
C27_Witness ==
  /\ Scored
  /\ sample.temperature = 200
  /\ sample.dewpoint = 100
  /\ forecast.breakdown.cloudBase.value = 2909
  /\ "Cloud base" \notin ReportedKinds

-----------------------------------------------------------------------------
(* Properties of overlapping runs (checked under OverlapSpec)              *)

\* A step in which invocation p, run with analyzeAll = false, writes the
\* cache file and thereby drops or replaces an entry the file held.
LostBy(p) ==
  /\ audit'[p].writes > audit[p].writes
  /\ response'[p].status = 200
  /\ ~analyzeAll[p]
  /\ cacheFile.kind = "cache"
  /\ \E id \in Keys(cacheFile.data) :
       \/ id \notin Keys(cacheFile'.data)
       \/ Lookup(cacheFile'.data, id) # Lookup(cacheFile.data, id)

-----------------------------------------------------------------------------
(* Properties of the pilot statistics (checked under Spec)                 *)

\* C29: for every pilot name the reviews list of its statistics holds each
\* review id at most once, also when one analysis mentions the pilot more
\* than once.
C29_ReviewsHoldEachIdOnce ==
  \A p \in Procs :
    Succeeded(p) =>
      \A i \in 1..Len(response[p].aggregated.pilotStats) :
        LET ids == response[p].aggregated.pilotStats[i].reviews
        IN  \A k, j \in 1..Len(ids) : ids[k] = ids[j] => k = j

-----------------------------------------------------------------------------
(* The range table against the fixed sectors (checked under ScorerSpec)    *)

\* C30: under the default configuration the range table gives every integer
\* direction 0..360 the score the fixed sectors gave it, the score the
\* forecast reports for the sample's direction included; direction 315
\* scores 100 and is not dangerous.
C30_RangeTableRefinesFixedSectors ==
  (Scored /\ env = DefaultEnv) =>
    /\ \A d \in 0..360 :
         getWindDirectionScore(d) = getWindDirectionScoreFixedSectors(d)
    /\ getWindDirectionScore(315) = 100
    /\ ~isWindDirectionDangerous(315)
    /\ NoViolation =>
         forecast.breakdown.windDirection.score
           = 100 * getWindDirectionScoreFixedSectors(sample.windDirection)

====
